---- MODULE Spec2Model ----
(***************************************************************************)
(* Connect 4 with three interchangeable game-tree searches (plain          *)
(* alpha-beta, alpha-beta with a transposition table, MTD(f)) and the game *)
(* session that drives them (src/src/App.tsx).                             *)
(***************************************************************************)
EXTENDS Integers, Sequences, FiniteSets, TLC

(***************************************************************************)
(* Game constants                                                          *)
(***************************************************************************)
ROWS == 6
COLS == 7
PLAYER == 1
BOT == 2

\* JavaScript's Infinity: larger than every score the program computes
\* (scores lie within -10010..10010 and within the heuristic's few hundreds).
Infinity == 1000000

\* Score of a win at remaining depth 0 (10000 + depth, -10000 - depth).
WinScore == 10000

Rows == 0 .. (ROWS - 1)
Cols == 0 .. (COLS - 1)

Max(a, b) == IF a >= b THEN a ELSE b
Min(a, b) == IF a <= b THEN a ELSE b

\* x + 1 in IEEE arithmetic: -Infinity + 1 = -Infinity, Infinity + 1 = Infinity.
PlusOne(x) == IF x = -Infinity \/ x = Infinity THEN x ELSE x + 1

(***************************************************************************)
(* Board state helpers                                                     *)
(***************************************************************************)
\* A Board is the array of its ROWS rows, each the array of its COLS cells
\* (0: empty, 1: player, 2: bot); row 0 is the top row.  JavaScript arrays
\* are sequences here, so board[r][c] of the program is Cell(board, r, c).
RECURSIVE ArrayFill(_, _)
\* Array(n).fill(v)
ArrayFill(n, v) == IF n = 0 THEN << >> ELSE Append(ArrayFill(n - 1, v), v)

createEmptyBoard == ArrayFill(ROWS, ArrayFill(COLS, 0))

Cell(board, r, c) == board[r + 1][c + 1]

\* The four-cell lines checkWinner scans, in its scan order: horizontal,
\* vertical, rising diagonal (bottom-left to top-right), falling diagonal.
\* Each line is given by its start cell and its step.
LineCells(r, c, dr, dc) ==
    <<<<r, c>>, <<r + dr, c + dc>>, <<r + 2 * dr, c + 2 * dc>>, <<r + 3 * dr, c + 3 * dc>>>>

RECURSIVE SeqOfRange(_, _, _, _, _, _)
\* The lines starting at (r, c) for r in rlo..rhi (outer loop), c in clo..chi
\* (inner loop), as a sequence in loop order.
SeqOfRange(r, rhi, c, clo, chi, d) ==
    IF r > rhi THEN << >>
    ELSE IF c > chi THEN SeqOfRange(r + 1, rhi, clo, clo, chi, d)
    ELSE <<LineCells(r, c, d[1], d[2])>> \o SeqOfRange(r, rhi, c + 1, clo, chi, d)

HorizontalLines == SeqOfRange(0, ROWS - 1, 0, 0, COLS - 4, <<0, 1>>)
VerticalLines == SeqOfRange(0, ROWS - 4, 0, 0, COLS - 1, <<1, 0>>)
RisingLines == SeqOfRange(3, ROWS - 1, 0, 0, COLS - 4, <<-1, 1>>)
FallingLines == SeqOfRange(0, ROWS - 4, 0, 0, COLS - 4, <<1, 1>>)

CheckWinnerLines == HorizontalLines \o VerticalLines \o RisingLines \o FallingLines
EvaluateLines == HorizontalLines \o VerticalLines \o FallingLines \o RisingLines

At(board, cell) == Cell(board, cell[1], cell[2])

\* The test comparing only the first three cells of the line.
IsFourOfThree(board, l) ==
    LET v == At(board, l[1])
    IN v # 0 /\ v = At(board, l[2]) /\ v = At(board, l[3])

\* The test of one scan step: four equal non-empty cells.
IsFour(board, l) ==
    LET v == At(board, l[1])
    IN v # 0 /\ v = At(board, l[2]) /\ v = At(board, l[3]) /\ v = At(board, l[4])

\* The first line in scan order that passes the test decides the result.
checkWinner(board) ==
    LET hits == {i \in 1 .. Len(CheckWinnerLines) : IsFour(board, CheckWinnerLines[i])}
    IN IF hits = {} THEN 0
       ELSE LET first == CHOOSE i \in hits : \A j \in hits : i <= j
            IN At(board, CheckWinnerLines[first][1])

isValidMove(board, col) == Cell(board, 0, col) = 0

isBoardFull(board) == \A c \in Cols : Cell(board, 0, c) # 0

RECURSIVE DropRow(_, _, _)
\* The loop "for r = ROWS - 1 down to 0": the first r with an empty cell in
\* col, or -1 when the loop ends without finding one (a cell read outside the
\* row is undefined, which is not 0).
DropRow(board, col, r) ==
    IF r < 0 THEN -1
    ELSE IF col \in Cols /\ Cell(board, r, col) = 0 THEN r
    ELSE DropRow(board, col, r - 1)

\* makeMove writing row 0 when the loop finds no empty cell.
makeMoveOverwrite(board, col, player) ==
    LET r == DropRow(board, col, ROWS - 1)
    IN IF col \notin Cols THEN board
       ELSE [board EXCEPT ![Max(r, 0) + 1][col + 1] = player]

\* makeMove scanning the column from the top row down.
makeMoveFromTop(board, col, player) ==
    LET empty == {r \in Rows : col \in Cols /\ Cell(board, r, col) = 0}
    IN IF empty = {} THEN board
       ELSE [board EXCEPT ![(CHOOSE r \in empty : \A q \in empty : r <= q) + 1][col + 1] = player]

makeMove(board, col, player) ==
    LET r == DropRow(board, col, ROWS - 1)
    IN IF r < 0 THEN board
       ELSE [board EXCEPT ![r + 1][col + 1] = player]

RECURSIVE ValidFrom(_, _)
ValidFrom(board, c) ==
    IF c >= COLS THEN << >>
    ELSE IF isValidMove(board, c) THEN <<c>> \o ValidFrom(board, c + 1)
    ELSE ValidFrom(board, c + 1)

\* getValidMoves with its loop starting at column 1.
getValidMovesSkipsFirst(board) == ValidFrom(board, 1)

getValidMoves(board) == ValidFrom(board, 0)

(***************************************************************************)
(* Board evaluation and hashing                                            *)
(***************************************************************************)
\* window.filter((c) => c === v).length for a window of four cells
Count(window, v) ==
    (IF window[1] = v THEN 1 ELSE 0) + (IF window[2] = v THEN 1 ELSE 0)
    + (IF window[3] = v THEN 1 ELSE 0) + (IF window[4] = v THEN 1 ELSE 0)

Window(board, l) == <<At(board, l[1]), At(board, l[2]), At(board, l[3]), At(board, l[4])>>

\* The window scores given for three or two cells whatever the other cells hold.
evaluateWindowNoEmptyCount(window, player, opponent) ==
    LET playerCount == Count(window, player)
        opponentCount == Count(window, opponent)
    IN (IF playerCount = 4 THEN 100
        ELSE IF playerCount = 3 THEN 5
        ELSE IF playerCount = 2 THEN 2
        ELSE 0)
       + (IF opponentCount = 3 THEN -4
          ELSE IF opponentCount = 2 THEN -1
          ELSE 0)

evaluateWindow(window, player, opponent) ==
    LET playerCount == Count(window, player)
        opponentCount == Count(window, opponent)
        emptyCount == Count(window, 0)
    IN (IF playerCount = 4 THEN 100
        ELSE IF playerCount = 3 /\ emptyCount = 1 THEN 5
        ELSE IF playerCount = 2 /\ emptyCount = 2 THEN 2
        ELSE 0)
       + (IF opponentCount = 3 /\ emptyCount = 1 THEN -4
          ELSE IF opponentCount = 2 /\ emptyCount = 2 THEN -1
          ELSE 0)

RECURSIVE SumScores(_, _, _)
\* The sum of scores[lo .. hi] (split in halves: the order of the additions
\* does not change an integer sum).
SumScores(scores, lo, hi) ==
    IF lo > hi THEN 0
    ELSE IF lo = hi THEN scores[lo]
    ELSE SumScores(scores, lo, (lo + hi) \div 2) + SumScores(scores, (lo + hi) \div 2 + 1, hi)

evaluateBoard(board, player) ==
    LET opponent == IF player = PLAYER THEN BOT ELSE PLAYER
        centerCol == COLS \div 2
        centerCount == Cardinality({r \in Rows : Cell(board, r, centerCol) = player})
        scores == [i \in 1 .. Len(EvaluateLines) |->
                      evaluateWindow(Window(board, EvaluateLines[i]), player, opponent)]
    IN SumScores(scores, 1, Len(EvaluateLines)) + centerCount * 3

\* row.join(""): the cells of a row as digits; rows joined by "-".
Digit(v) == IF v = 0 THEN "0" ELSE IF v = 1 THEN "1" ELSE "2"

RECURSIVE RowString(_, _, _)
RowString(board, r, c) ==
    IF c >= COLS THEN << >> ELSE <<Digit(Cell(board, r, c))>> \o RowString(board, r, c + 1)

RECURSIVE JoinRows(_, _)
JoinRows(board, r) ==
    IF r = ROWS - 1 THEN RowString(board, r, 0)
    ELSE RowString(board, r, 0) \o <<"-">> \o JoinRows(board, r + 1)

getBoardHash(board) == JoinRows(board, 0)

(***************************************************************************)
(* Transposition table: a Map from key strings to entries                  *)
(***************************************************************************)
EmptyTable == << >>

TableHas(tt, hash) == hash \in DOMAIN tt

TableSet(tt, hash, entry) == (hash :> entry) @@ tt

(***************************************************************************)
(* Plain alpha-beta.  A search returns its score and the node counter      *)
(* (nodesRef.count) as it stands after the call.                           *)
(***************************************************************************)
RECURSIVE alphaBetaPruningAlgorithm(_, _, _, _, _, _, _)
RECURSIVE AlphaBetaMaxLoop(_, _, _, _, _, _, _, _, _)
RECURSIVE AlphaBetaMinLoop(_, _, _, _, _, _, _, _, _)

AlphaBetaMaxLoop(board, depth, alpha, beta, botPlayer, validMoves, i, maxEval, nodes) ==
    IF i > Len(validMoves) THEN [score |-> maxEval, nodes |-> nodes]
    ELSE LET newBoard == makeMove(board, validMoves[i], botPlayer)
             r == alphaBetaPruningAlgorithm(newBoard, depth - 1, alpha, beta, FALSE,
                                            botPlayer, nodes)
             maxEval2 == Max(maxEval, r.score)
             alpha2 == Max(alpha, r.score)
         IN IF beta <= alpha2 THEN [score |-> maxEval2, nodes |-> r.nodes]
            ELSE AlphaBetaMaxLoop(board, depth, alpha2, beta, botPlayer, validMoves,
                                  i + 1, maxEval2, r.nodes)

AlphaBetaMinLoop(board, depth, alpha, beta, botPlayer, validMoves, i, minEval, nodes) ==
    IF i > Len(validMoves) THEN [score |-> minEval, nodes |-> nodes]
    ELSE LET humanPlayer == IF botPlayer = BOT THEN PLAYER ELSE BOT
             newBoard == makeMove(board, validMoves[i], humanPlayer)
             r == alphaBetaPruningAlgorithm(newBoard, depth - 1, alpha, beta, TRUE,
                                            botPlayer, nodes)
             minEval2 == Min(minEval, r.score)
             beta2 == Min(beta, r.score)
         IN IF beta2 <= alpha THEN [score |-> minEval2, nodes |-> r.nodes]
            ELSE AlphaBetaMinLoop(board, depth, alpha, beta2, botPlayer, validMoves,
                                  i + 1, minEval2, r.nodes)

alphaBetaPruningAlgorithm(board, depth, alpha, beta, maximizing, botPlayer, nodes) ==
    LET humanPlayer == IF botPlayer = BOT THEN PLAYER ELSE BOT
        winner == checkWinner(board)
    IN IF winner = botPlayer THEN [score |-> WinScore + depth, nodes |-> nodes + 1]
       ELSE IF winner = humanPlayer THEN [score |-> -WinScore - depth, nodes |-> nodes + 1]
       ELSE IF depth = 0 \/ isBoardFull(board)
            THEN [score |-> evaluateBoard(board, botPlayer), nodes |-> nodes + 1]
       ELSE IF maximizing
            THEN AlphaBetaMaxLoop(board, depth, alpha, beta, botPlayer,
                                  getValidMoves(board), 1, -Infinity, nodes + 1)
            ELSE AlphaBetaMinLoop(board, depth, alpha, beta, botPlayer,
                                  getValidMoves(board), 1, Infinity, nodes + 1)

(***************************************************************************)
(* Alpha-beta with the transposition table.  A search returns its score,   *)
(* the node counter and the table as it stands after the call.             *)
(***************************************************************************)
\* The table lookup shared by both table-using searches: the entry is used
\* when it exists and cached.depth >= depth.  "return" says whether the
\* function returns cached.score at once; otherwise alpha and beta are the
\* window after narrowing.
\* The lookup using an entry whatever depth it was stored with.
CacheLookupAnyDepth(tt, hash, depth, alpha, beta) ==
    IF TableHas(tt, hash)
    THEN LET cached == tt[hash]
             alpha2 == IF cached.flag = "LOWERBOUND" THEN Max(alpha, cached.score) ELSE alpha
             beta2 == IF cached.flag = "UPPERBOUND" THEN Min(beta, cached.score) ELSE beta
         IN IF cached.flag = "EXACT"
            THEN [return |-> TRUE, score |-> cached.score, alpha |-> alpha, beta |-> beta]
            ELSE IF alpha2 >= beta2
            THEN [return |-> TRUE, score |-> cached.score, alpha |-> alpha2, beta |-> beta2]
            ELSE [return |-> FALSE, score |-> 0, alpha |-> alpha2, beta |-> beta2]
    ELSE [return |-> FALSE, score |-> 0, alpha |-> alpha, beta |-> beta]

CacheLookup(tt, hash, depth, alpha, beta) ==
    IF TableHas(tt, hash) /\ tt[hash].depth >= depth
    THEN LET cached == tt[hash]
             alpha2 == IF cached.flag = "LOWERBOUND" THEN Max(alpha, cached.score) ELSE alpha
             beta2 == IF cached.flag = "UPPERBOUND" THEN Min(beta, cached.score) ELSE beta
         IN IF cached.flag = "EXACT"
            THEN [return |-> TRUE, score |-> cached.score, alpha |-> alpha, beta |-> beta]
            ELSE IF alpha2 >= beta2
            THEN [return |-> TRUE, score |-> cached.score, alpha |-> alpha2, beta |-> beta2]
            ELSE [return |-> FALSE, score |-> 0, alpha |-> alpha2, beta |-> beta2]
    ELSE [return |-> FALSE, score |-> 0, alpha |-> alpha, beta |-> beta]

\* The flags of the two bounds exchanged.
StoreFlagSwapped(score, alphaOrig, betaOrig) ==
    IF score <= alphaOrig THEN "LOWERBOUND"
    ELSE IF score >= betaOrig THEN "UPPERBOUND"
    ELSE "EXACT"

\* The flag stored with a score, decided against alphaOrig and betaOrig.
StoreFlag(score, alphaOrig, betaOrig) ==
    IF score <= alphaOrig THEN "UPPERBOUND"
    ELSE IF score >= betaOrig THEN "LOWERBOUND"
    ELSE "EXACT"

\* The key without the side to move.
TranspositionKeyNoMover(board, maximizing) == getBoardHash(board)

TranspositionKey(board, maximizing) ==
    getBoardHash(board) \o <<"-">> \o (IF maximizing THEN <<"max">> ELSE <<"min">>)

RECURSIVE alphaBetaPruningWithTranspositionTableAlgorithm(_, _, _, _, _, _, _, _)
RECURSIVE TranspositionMaxLoop(_, _, _, _, _, _, _, _, _, _)
RECURSIVE TranspositionMinLoop(_, _, _, _, _, _, _, _, _, _)

\* The maximizing loop without its cutoff: every column is searched.
TranspositionMaxLoopNoCutoff(board, depth, alpha, beta, botPlayer, validMoves, i, maxEval, nodes, tt) ==
    IF i > Len(validMoves) THEN [score |-> maxEval, nodes |-> nodes, tt |-> tt]
    ELSE LET newBoard == makeMove(board, validMoves[i], botPlayer)
             r == alphaBetaPruningWithTranspositionTableAlgorithm(
                      newBoard, depth - 1, alpha, beta, FALSE, botPlayer, nodes, tt)
         IN TranspositionMaxLoop(board, depth, Max(alpha, r.score), beta, botPlayer,
                                 validMoves, i + 1, Max(maxEval, r.score), r.nodes, r.tt)

TranspositionMaxLoop(board, depth, alpha, beta, botPlayer, validMoves, i, maxEval, nodes, tt) ==
    IF i > Len(validMoves) THEN [score |-> maxEval, nodes |-> nodes, tt |-> tt]
    ELSE LET newBoard == makeMove(board, validMoves[i], botPlayer)
             r == alphaBetaPruningWithTranspositionTableAlgorithm(
                      newBoard, depth - 1, alpha, beta, FALSE, botPlayer, nodes, tt)
             maxEval2 == Max(maxEval, r.score)
             alpha2 == Max(alpha, r.score)
         IN IF beta <= alpha2 THEN [score |-> maxEval2, nodes |-> r.nodes, tt |-> r.tt]
            ELSE TranspositionMaxLoop(board, depth, alpha2, beta, botPlayer, validMoves,
                                      i + 1, maxEval2, r.nodes, r.tt)

TranspositionMinLoop(board, depth, alpha, beta, botPlayer, validMoves, i, minEval, nodes, tt) ==
    IF i > Len(validMoves) THEN [score |-> minEval, nodes |-> nodes, tt |-> tt]
    ELSE LET humanPlayer == IF botPlayer = BOT THEN PLAYER ELSE BOT
             newBoard == makeMove(board, validMoves[i], humanPlayer)
             r == alphaBetaPruningWithTranspositionTableAlgorithm(
                      newBoard, depth - 1, alpha, beta, TRUE, botPlayer, nodes, tt)
             minEval2 == Min(minEval, r.score)
             beta2 == Min(beta, r.score)
         IN IF beta2 <= alpha THEN [score |-> minEval2, nodes |-> r.nodes, tt |-> r.tt]
            ELSE TranspositionMinLoop(board, depth, alpha, beta2, botPlayer, validMoves,
                                      i + 1, minEval2, r.nodes, r.tt)

alphaBetaPruningWithTranspositionTableAlgorithm(board, depth, alpha, beta, maximizing, botPlayer, nodes, tt) ==
    LET alphaOrig == alpha
        humanPlayer == IF botPlayer = BOT THEN PLAYER ELSE BOT
        hash == TranspositionKey(board, maximizing)
        look == CacheLookup(tt, hash, depth, alpha, beta)
        winner == checkWinner(board)
        betaOrig == look.beta
        res == IF maximizing
               THEN TranspositionMaxLoop(board, depth, look.alpha, look.beta, botPlayer,
                                         getValidMoves(board), 1, -Infinity, nodes + 1, tt)
               ELSE TranspositionMinLoop(board, depth, look.alpha, look.beta, botPlayer,
                                         getValidMoves(board), 1, Infinity, nodes + 1, tt)
        flag == StoreFlag(res.score, alphaOrig, betaOrig)
    IN IF look.return THEN [score |-> look.score, nodes |-> nodes + 1, tt |-> tt]
       ELSE IF winner = botPlayer
            THEN [score |-> WinScore + depth, nodes |-> nodes + 1, tt |-> tt]
       ELSE IF winner = humanPlayer
            THEN [score |-> -WinScore - depth, nodes |-> nodes + 1, tt |-> tt]
       ELSE IF depth = 0 \/ isBoardFull(board)
            THEN [score |-> evaluateBoard(board, botPlayer), nodes |-> nodes + 1, tt |-> tt]
       ELSE [score |-> res.score, nodes |-> res.nodes,
             tt |-> TableSet(res.tt, hash,
                             [score |-> res.score, depth |-> depth, flag |-> flag])]

(***************************************************************************)
(* Alpha-beta with memory, the search MTD(f) drives                        *)
(***************************************************************************)
MemoryKey(board, currentPlayer) ==
    getBoardHash(board) \o <<"-">> \o <<Digit(currentPlayer)>>

RECURSIVE alphaBetaPruningWithMemoryAlgorithm(_, _, _, _, _, _, _, _)
RECURSIVE MemoryMaxLoop(_, _, _, _, _, _, _, _, _, _, _)
RECURSIVE MemoryMinLoop(_, _, _, _, _, _, _, _, _, _, _)

MemoryMaxLoop(board, depth, alpha, beta, currentPlayer, botPlayer, validMoves, i, bestScore, nodes, tt) ==
    IF i > Len(validMoves) THEN [score |-> bestScore, nodes |-> nodes, tt |-> tt]
    ELSE LET opponent == IF currentPlayer = PLAYER THEN BOT ELSE PLAYER
             newBoard == makeMove(board, validMoves[i], currentPlayer)
             r == alphaBetaPruningWithMemoryAlgorithm(
                      newBoard, depth - 1, alpha, beta, opponent, botPlayer, nodes, tt)
             bestScore2 == Max(bestScore, r.score)
             alpha2 == Max(alpha, bestScore2)
         IN IF alpha2 >= beta THEN [score |-> bestScore2, nodes |-> r.nodes, tt |-> r.tt]
            ELSE MemoryMaxLoop(board, depth, alpha2, beta, currentPlayer, botPlayer,
                               validMoves, i + 1, bestScore2, r.nodes, r.tt)

MemoryMinLoop(board, depth, alpha, beta, currentPlayer, botPlayer, validMoves, i, bestScore, nodes, tt) ==
    IF i > Len(validMoves) THEN [score |-> bestScore, nodes |-> nodes, tt |-> tt]
    ELSE LET opponent == IF currentPlayer = PLAYER THEN BOT ELSE PLAYER
             newBoard == makeMove(board, validMoves[i], currentPlayer)
             r == alphaBetaPruningWithMemoryAlgorithm(
                      newBoard, depth - 1, alpha, beta, opponent, botPlayer, nodes, tt)
             bestScore2 == Min(bestScore, r.score)
             beta2 == Min(beta, bestScore2)
         IN IF alpha >= beta2 THEN [score |-> bestScore2, nodes |-> r.nodes, tt |-> r.tt]
            ELSE MemoryMinLoop(board, depth, alpha, beta2, currentPlayer, botPlayer,
                               validMoves, i + 1, bestScore2, r.nodes, r.tt)

alphaBetaPruningWithMemoryAlgorithm(board, depth, alpha, beta, currentPlayer, botPlayer, nodes, tt) ==
    LET alphaOrig == alpha
        hash == MemoryKey(board, currentPlayer)
        look == CacheLookup(tt, hash, depth, alpha, beta)
        winner == checkWinner(board)
        betaOrig == look.beta
        res == IF currentPlayer = botPlayer
               THEN MemoryMaxLoop(board, depth, look.alpha, look.beta, currentPlayer,
                                  botPlayer, getValidMoves(board), 1, -Infinity,
                                  nodes + 1, tt)
               ELSE MemoryMinLoop(board, depth, look.alpha, look.beta, currentPlayer,
                                  botPlayer, getValidMoves(board), 1, Infinity,
                                  nodes + 1, tt)
        flag == StoreFlag(res.score, alphaOrig, betaOrig)
    IN IF look.return THEN [score |-> look.score, nodes |-> nodes + 1, tt |-> tt]
       ELSE IF winner = botPlayer
            THEN [score |-> WinScore + depth, nodes |-> nodes + 1, tt |-> tt]
       ELSE IF winner # 0 /\ winner # botPlayer
            THEN [score |-> -WinScore - depth, nodes |-> nodes + 1, tt |-> tt]
       ELSE IF depth = 0 \/ isBoardFull(board)
            THEN [score |-> evaluateBoard(board, botPlayer), nodes |-> nodes + 1, tt |-> tt]
       ELSE [score |-> res.score, nodes |-> res.nodes,
             tt |-> TableSet(res.tt, hash,
                             [score |-> res.score, depth |-> depth, flag |-> flag])]

(***************************************************************************)
(* MTD(f)                                                                  *)
(***************************************************************************)
\* The bound update that ends a pass: r is the result of the null-window
\* search at beta.
MtdfUpdate(beta, lowerBound, upperBound, r) ==
    [g |-> r.score,
     lowerBound |-> IF r.score < beta THEN lowerBound ELSE r.score,
     upperBound |-> IF r.score < beta THEN r.score ELSE upperBound,
     beta |-> beta, nodes |-> r.nodes, tt |-> r.tt]

\* The pass taking beta = max(g, lowerBound), without the step of 1.
MtdfPassNoStep(board, depth, g, lowerBound, upperBound, currentPlayer, botPlayer, nodes, tt) ==
    MtdfUpdate(Max(g, lowerBound), lowerBound, upperBound,
               alphaBetaPruningWithMemoryAlgorithm(
                   board, depth, Max(g, lowerBound) - 1,
                   Max(g, lowerBound), currentPlayer, botPlayer, nodes, tt))

\* One pass of the loop body of mtdfAlgorithm from the loop state
\* (g, lowerBound, upperBound): a null-window search at beta, then the
\* bound update.
MtdfPass(board, depth, g, lowerBound, upperBound, currentPlayer, botPlayer, nodes, tt) ==
    MtdfUpdate(Max(g, PlusOne(lowerBound)), lowerBound, upperBound,
               alphaBetaPruningWithMemoryAlgorithm(
                   board, depth, Max(g, PlusOne(lowerBound)) - 1,
                   Max(g, PlusOne(lowerBound)), currentPlayer, botPlayer, nodes, tt))

RECURSIVE MtdfLoop(_, _, _, _, _, _, _, _, _)
RECURSIVE MtdfLoopFrom(_, _, _, _, _)

\* The loop "while (lowerBound < upperBound)", entered with loop state p.
MtdfLoopFrom(board, depth, currentPlayer, botPlayer, p) ==
    MtdfLoop(board, depth, p.g, p.lowerBound, p.upperBound, currentPlayer, botPlayer,
             p.nodes, p.tt)

MtdfLoop(board, depth, g, lowerBound, upperBound, currentPlayer, botPlayer, nodes, tt) ==
    IF ~(lowerBound < upperBound) THEN [score |-> g, nodes |-> nodes, tt |-> tt]
    ELSE MtdfLoopFrom(board, depth, currentPlayer, botPlayer,
                      MtdfPass(board, depth, g, lowerBound, upperBound, currentPlayer,
                               botPlayer, nodes, tt))

\* mtdfAlgorithm returning after its first pass.
mtdfAlgorithmOnePass(board, depth, firstGuess, currentPlayer, botPlayer, nodes, tt) ==
    LET p == MtdfPass(board, depth, firstGuess, -Infinity, Infinity, currentPlayer,
                      botPlayer, nodes, tt)
    IN [score |-> p.g, nodes |-> p.nodes, tt |-> p.tt]

mtdfAlgorithm(board, depth, firstGuess, currentPlayer, botPlayer, nodes, tt) ==
    MtdfLoop(board, depth, firstGuess, -Infinity, Infinity, currentPlayer, botPlayer,
             nodes, tt)

(***************************************************************************)
(* Move selection                                                          *)
(***************************************************************************)
\* validMoves[0] of a possibly empty array: undefined is written -1.
FirstOrUndefined(validMoves) == IF Len(validMoves) = 0 THEN -1 ELSE validMoves[1]

RECURSIVE MtdfColumnLoop(_, _, _, _, _, _, _, _, _)
RECURSIVE MtdfColumnStep(_, _, _, _, _, _, _, _)

\* The end of one iteration of the loop over validMoves: r is the score
\* mtdfAlgorithm returned for column validMoves[i].
MtdfColumnStep(board, d, firstGuess, validMoves, i, tempBestScore, tempBestCol, r) ==
    IF r.score > tempBestScore
    THEN MtdfColumnLoop(board, d, firstGuess, validMoves, i + 1, r.score, validMoves[i],
                        r.nodes, r.tt)
    ELSE MtdfColumnLoop(board, d, firstGuess, validMoves, i + 1, tempBestScore,
                        tempBestCol, r.nodes, r.tt)

\* The loop over validMoves inside one depth iteration d of the mtdf branch.
MtdfColumnLoop(board, d, firstGuess, validMoves, i, tempBestScore, tempBestCol, nodes, tt) ==
    IF i > Len(validMoves)
    THEN [score |-> tempBestScore, col |-> tempBestCol, nodes |-> nodes, tt |-> tt]
    ELSE MtdfColumnStep(board, d, firstGuess, validMoves, i, tempBestScore, tempBestCol,
                        mtdfAlgorithm(makeMove(board, validMoves[i], BOT), d - 1,
                                      firstGuess, PLAYER, BOT, nodes, tt))

RECURSIVE MtdfDepthLoop(_, _, _, _, _, _, _, _, _)
RECURSIVE MtdfDepthStep(_, _, _, _, _)

\* The end of one iteration of the loop "for d = 1 .. depth": r is the best
\* score and column of depth d.
MtdfDepthStep(board, depth, d, validMoves, r) ==
    MtdfDepthLoop(board, depth, d + 1, r.score, validMoves, r.score, r.col, r.nodes, r.tt)

\* The loop "for d = 1 .. depth" of the mtdf branch.
MtdfDepthLoop(board, depth, d, firstGuess, validMoves, bestScore, bestCol, nodes, tt) ==
    IF d > depth
    THEN [col |-> bestCol, evaluation |-> bestScore, nodes |-> nodes, tt |-> tt]
    ELSE MtdfDepthStep(board, depth, d, validMoves,
                       MtdfColumnLoop(board, d, firstGuess, validMoves, 1, -Infinity,
                                      FirstOrUndefined(validMoves), nodes, tt))

\* The search of one root column in the alphabeta and transposition branches.
RootSearch(newBoard, useTransposition, depth, nodes, tt) ==
    IF useTransposition
    THEN alphaBetaPruningWithTranspositionTableAlgorithm(
             newBoard, depth - 1, -Infinity, Infinity, FALSE, BOT, nodes, tt)
    ELSE [tt |-> tt] @@ alphaBetaPruningAlgorithm(
                            newBoard, depth - 1, -Infinity, Infinity, FALSE, BOT, nodes)

RECURSIVE RootLoop(_, _, _, _, _, _, _, _, _)
RECURSIVE RootStep(_, _, _, _, _, _, _, _)

\* The root loop keeping a column when its score is lower than the best so far.
RootStepLess(board, useTransposition, depth, validMoves, i, bestScore, bestCol, r) ==
    IF r.score < bestScore
    THEN RootLoop(board, useTransposition, depth, validMoves, i + 1, r.score,
                  validMoves[i], r.nodes, r.tt)
    ELSE RootLoop(board, useTransposition, depth, validMoves, i + 1, bestScore,
                  bestCol, r.nodes, r.tt)

\* The root loop replacing the best column when a later column reaches the
\* same score.
RootStepLastWins(board, useTransposition, depth, validMoves, i, bestScore, bestCol, r) ==
    IF r.score >= bestScore
    THEN RootLoop(board, useTransposition, depth, validMoves, i + 1, r.score,
                  validMoves[i], r.nodes, r.tt)
    ELSE RootLoop(board, useTransposition, depth, validMoves, i + 1, bestScore,
                  bestCol, r.nodes, r.tt)

\* The end of one iteration of the root loop: r is the score of column
\* validMoves[i].
RootStep(board, useTransposition, depth, validMoves, i, bestScore, bestCol, r) ==
    IF r.score > bestScore
    THEN RootLoop(board, useTransposition, depth, validMoves, i + 1, r.score,
                  validMoves[i], r.nodes, r.tt)
    ELSE RootLoop(board, useTransposition, depth, validMoves, i + 1, bestScore,
                  bestCol, r.nodes, r.tt)

\* The loop over validMoves of the alphabeta and transposition branches.
RootLoop(board, useTransposition, depth, validMoves, i, bestScore, bestCol, nodes, tt) ==
    IF i > Len(validMoves)
    THEN [col |-> bestCol, evaluation |-> bestScore, nodes |-> nodes, tt |-> tt]
    ELSE RootStep(board, useTransposition, depth, validMoves, i, bestScore, bestCol,
                  RootSearch(makeMove(board, validMoves[i], BOT), useTransposition,
                             depth, nodes, tt))

\* findBestMove raising a depth below 1 to 1.
findBestMoveClamped(board, algorithm, depth, tt) ==
    LET validMoves == getValidMoves(board)
    IN IF algorithm = "mtdf"
       THEN MtdfDepthLoop(board, Max(depth, 1), 1, 0, validMoves, -Infinity,
                          FirstOrUndefined(validMoves), 0, tt)
       ELSE RootLoop(board, algorithm = "transposition", Max(depth, 1), validMoves, 1,
                     -Infinity, FirstOrUndefined(validMoves), 0, tt)

\* findBestMove returns {col, evaluation, nodes}; tt is the global table as
\* the call leaves it.
findBestMove(board, algorithm, depth, tt) ==
    LET validMoves == getValidMoves(board)
    IN IF algorithm = "mtdf"
       THEN MtdfDepthLoop(board, depth, 1, 0, validMoves, -Infinity,
                          FirstOrUndefined(validMoves), 0, tt)
       ELSE RootLoop(board, algorithm = "transposition", depth, validMoves, 1,
                     -Infinity, FirstOrUndefined(validMoves), 0, tt)

(***************************************************************************)
(* The game session: the App component's state, the transposition table    *)
(* shared by all searches, and the makeBotMove calls suspended at their    *)
(* 50 ms delay.                                                            *)
(***************************************************************************)
\* Bounds of the model.
SessionDepth == 2    \* the depth slider is moved to SessionDepth
ClickWidth == 1      \* the human clicks the ClickWidth columns right of the centre
MaxClicks == 3       \* the human drops at most MaxClicks pieces in a session
MaxGames == 2        \* Start Game is pressed at most MaxGames times

\* The range of the depth slider.
MinSearchDepth == 1
MaxSearchDepth == 10
DefaultSearchDepth == 5

Algorithms == {"alphabeta", "transposition", "mtdf"}

\* The columns the human clicks.
ClickCols == {c \in Cols : c > COLS \div 2 /\ c <= COLS \div 2 + ClickWidth}

\* The positions the depth slider is moved to.
SliderDepths == {d \in MinSearchDepth .. MaxSearchDepth : d = SessionDepth}

VARIABLES
    gameState,            \* "setup" | "playing" | "finished"
    board,
    currentPlayer,
    winner,
    config,               \* [algorithm, searchDepth, playerStarts]
    metrics,              \* [nodesSearched, evaluation, isThinking]
    transpositionTable,
    pending,              \* suspended makeBotMove calls, oldest first: the
                          \* board and config each closed over
    game,                 \* history: how many times Start Game was pressed
    clicks,               \* history: how many pieces the human dropped, all games
    writer,               \* history: for each table key, the game whose
                          \* search stored the entry now in the table
    probe                 \* the last direct call of a function of the program
                          \* on the board: its arguments and what it returned

vars == <<gameState, board, currentPlayer, winner, config, metrics,
          transpositionTable, pending, game, clicks, writer, probe>>

RECURSIVE CountCells(_, _)
\* The number of pieces on a board (cells 0 .. ROWS * COLS - 1, row-major).
CountCells(b, n) ==
    IF n < 0 THEN 0
    ELSE (IF Cell(b, n \div COLS, n % COLS) # 0 THEN 1 ELSE 0) + CountCells(b, n - 1)

Pieces(b) == CountCells(b, ROWS * COLS - 1)

ResetMetrics == [nodesSearched |-> 0, evaluation |-> 0, isThinking |-> FALSE]

NoCall == [op |-> "none"]

Init ==
    /\ gameState = "setup"
    /\ board = createEmptyBoard
    /\ currentPlayer = PLAYER
    /\ winner = 0
    /\ config = [algorithm |-> "alphabeta", searchDepth |-> DefaultSearchDepth,
                 playerStarts |-> TRUE]
    /\ metrics = ResetMetrics
    /\ transpositionTable = EmptyTable
    /\ pending = << >>
    /\ game = 0
    /\ clicks = 0
    /\ writer = << >>
    /\ probe = NoCall

\* The bot-turn effect, run after a render whose dependencies changed: when it
\* is the bot's turn in a playing game it calls makeBotMove, which passes its
\* guard, sets isThinking and suspends at the delay, closed over the board and
\* config of that render.
\* The effect calling makeBotMove on the bot's turn whatever the game state.
BotTurnEffectAnyState(gs, b, cp, cfg, m, pend, g) ==
    IF cp = BOT
    THEN [metrics |-> [m EXCEPT !.isThinking = TRUE, !.nodesSearched = 0],
          pending |-> Append(pend, [board |-> b, config |-> cfg, game |-> g])]
    ELSE [metrics |-> m, pending |-> pend]

BotTurnEffect(gs, b, cp, cfg, m, pend, g) ==
    IF cp = BOT /\ gs = "playing"
    THEN [metrics |-> [m EXCEPT !.isThinking = TRUE, !.nodesSearched = 0],
          pending |-> Append(pend, [board |-> b, config |-> cfg, game |-> g])]
    ELSE [metrics |-> m, pending |-> pend]

\* The setup screen's controls.
SetAlgorithm(a) ==
    /\ gameState = "setup"
    /\ config' = [config EXCEPT !.algorithm = a]
    /\ UNCHANGED <<gameState, board, currentPlayer, winner, metrics,
                   transpositionTable, pending, game, clicks, writer, probe>>

SetSearchDepth(d) ==
    /\ gameState = "setup"
    /\ config' = [config EXCEPT !.searchDepth = d]
    /\ UNCHANGED <<gameState, board, currentPlayer, winner, metrics,
                   transpositionTable, pending, game, clicks, writer, probe>>

SetPlayerStarts(p) ==
    /\ gameState = "setup"
    /\ config' = [config EXCEPT !.playerStarts = p]
    /\ UNCHANGED <<gameState, board, currentPlayer, winner, metrics,
                   transpositionTable, pending, game, clicks, writer, probe>>

startGame ==
    /\ gameState = "setup"
    /\ game < MaxGames
    /\ config.searchDepth <= SessionDepth
    /\ game' = game + 1
    /\ board' = createEmptyBoard
    /\ winner' = 0
    /\ gameState' = "playing"
    /\ currentPlayer' = IF config.playerStarts THEN PLAYER ELSE BOT
    /\ transpositionTable' = EmptyTable
    /\ writer' = << >>
    /\ LET e == BotTurnEffect(gameState', board', currentPlayer', config, ResetMetrics,
                              pending, game + 1)
       IN metrics' = e.metrics /\ pending' = e.pending
    /\ UNCHANGED <<config, clicks, probe>>

restartGame ==
    /\ gameState # "setup"
    /\ game < MaxGames
    /\ gameState' = "setup"
    /\ board' = createEmptyBoard
    /\ winner' = 0
    /\ metrics' = ResetMetrics
    /\ transpositionTable' = EmptyTable
    /\ writer' = << >>
    /\ UNCHANGED <<currentPlayer, config, pending, game, clicks, probe>>

\* The early return leaving out the test of the turn.
ReturnsEarlyAnyTurn(col) ==
    gameState # "playing" \/ ~isValidMove(board, col)

\* The condition of the early return of handlePlayerMove.
ReturnsEarly(col) ==
    gameState # "playing" \/ currentPlayer # PLAYER \/ ~isValidMove(board, col)

handlePlayerMove(col) ==
    /\ gameState # "setup"
    /\ ~ReturnsEarly(col)
    /\ clicks < MaxClicks
    /\ clicks' = clicks + 1
    /\ \E newBoard \in {makeMove(board, col, PLAYER)} :
       \E w \in {checkWinner(newBoard)} :
          /\ board' = newBoard
          /\ IF w # 0
             THEN winner' = w /\ gameState' = "finished" /\ UNCHANGED currentPlayer
             ELSE IF isBoardFull(newBoard)
             THEN gameState' = "finished" /\ UNCHANGED <<winner, currentPlayer>>
             ELSE currentPlayer' = BOT /\ UNCHANGED <<gameState, winner>>
    /\ LET e == BotTurnEffect(gameState', board', currentPlayer', config, metrics, pending,
                              game)
       IN metrics' = e.metrics /\ pending' = e.pending
    /\ UNCHANGED <<config, transpositionTable, game, writer, probe>>

\* The writers of a table after a search of game g changed old into new.
Writers(old, new, w, g) ==
    [k \in DOMAIN new |-> IF TableHas(old, k) /\ old[k] = new[k] THEN w[k] ELSE g]

\* The oldest suspended makeBotMove call resumes after its delay and runs to
\* its end, on the board and config it closed over.
makeBotMove ==
    /\ pending # << >>
    /\ \E c \in {Head(pending)} :
       \E res \in {findBestMove(c.board, c.config.algorithm, c.config.searchDepth,
                                transpositionTable)} :
       \E newBoard \in {makeMove(c.board, res.col, BOT)} :
       \E w \in {checkWinner(newBoard)} :
          /\ transpositionTable' = res.tt
          /\ writer' = Writers(transpositionTable, res.tt, writer, c.game)
          /\ board' = newBoard
          /\ IF w # 0
             THEN winner' = w /\ gameState' = "finished" /\ UNCHANGED currentPlayer
             ELSE IF isBoardFull(newBoard)
             THEN gameState' = "finished" /\ UNCHANGED <<winner, currentPlayer>>
             ELSE currentPlayer' = PLAYER /\ UNCHANGED <<gameState, winner>>
          /\ LET e == BotTurnEffect(gameState', board', currentPlayer', config,
                                    [nodesSearched |-> res.nodes,
                                     evaluation |-> res.evaluation,
                                     isThinking |-> FALSE],
                                    Tail(pending), game)
             IN metrics' = e.metrics /\ pending' = e.pending
    /\ UNCHANGED <<config, game, clicks, probe>>

Next ==
    \/ \E a \in Algorithms : SetAlgorithm(a)
    \/ \E d \in SliderDepths : SetSearchDepth(d)
    \/ \E p \in BOOLEAN : SetPlayerStarts(p)
    \/ startGame
    \/ restartGame
    \/ \E col \in ClickCols : handlePlayerMove(col)
    \/ makeBotMove

Spec == Init /\ [][Next]_vars

(***************************************************************************)
(* Properties of the game session.                                         *)
(***************************************************************************)
\* No piece floats: a filled cell above the bottom row has a filled cell
\* directly below it.
Gravity(b) ==
    \A r \in 0 .. ROWS - 2 : \A c \in Cols :
        Cell(b, r, c) # 0 => Cell(b, r + 1, c) # 0

RECURSIVE Visited(_, _, _)
\* The boards a search from board b can visit when player is to move there
\* and d plies remain: b itself and, while the game is open, what every legal
\* drop leads to.  Pruning and cache hits visit a subset of these.
Visited(b, player, d) ==
    IF d <= 0 \/ checkWinner(b) # 0 THEN {b}
    ELSE {b} \cup UNION {Visited(makeMove(b, c, player),
                                 IF player = BOT THEN PLAYER ELSE BOT, d - 1) :
                         c \in {x \in Cols : isValidMove(b, x)}}

\* C7: the board of the game, in every state, and every board a suspended bot
\* move will visit in its search satisfy the gravity invariant.
C7_GravityEverywhere ==
    /\ Gravity(board)
    /\ \A i \in DOMAIN pending :
          \A b \in Visited(pending[i].board, BOT, pending[i].config.searchDepth) :
              Gravity(b)

\* C7's case: a second game is under way, pieces of both sides are on the
\* board, and a bot move is about to search.
C7_Witness ==
    /\ gameState = "playing"
    /\ Pieces(board) >= 3
    /\ pending # << >>
    /\ Cardinality(Visited(Head(pending).board, BOT,
                           Head(pending).config.searchDepth)) > COLS

\* C9: a finished game's recorded result matches its board (draw exactly when
\* the board is full without a four, winner w exactly when checkWinner gives
\* w), and a playing game's board is not full and holds no four.
C9_ResultMatchesBoard ==
    /\ gameState = "finished" =>
          /\ (winner = 0) <=> (isBoardFull(board) /\ checkWinner(board) = 0)
          /\ \A w \in {PLAYER, BOT} : (winner = w) <=> (checkWinner(board) = w)
    /\ gameState = "playing" =>
          ~isBoardFull(board) /\ checkWinner(board) = 0

\* C10: while a game is playing, every entry of the transposition table was
\* stored by a search of that game.
C10_TableOfCurrentGame ==
    gameState = "playing" =>
        \A k \in DOMAIN transpositionTable : writer[k] = game

\* C11: at most one makeBotMove call is pending (scheduled and not yet
\* completed) at any time, under any interleaving of clicks, New Game, Start
\* Game and the delayed continuations.
C11_OnePendingBotMove == Len(pending) <= 1

(***************************************************************************)
(* makeMove on the objects it works on: a board is an array of references  *)
(* to row arrays, the heap maps a reference to the row it holds.           *)
(***************************************************************************)
\* The board a board object denotes on a heap.
Deref(heap, obj) == <<heap[obj[1]], heap[obj[2]], heap[obj[3]],
                      heap[obj[4]], heap[obj[5]], heap[obj[6]]>>

\* A heap holding the rows of b alone, and the object of b on it.
HeapOf(b) == b
ObjectOf(b) == <<1, 2, 3, 4, 5, 6>>

\* makeMove sharing the rows of its input: newBoard = [...board].
makeMoveShallow(heap, obj, col, player) ==
    LET r == DropRow(Deref(heap, obj), col, ROWS - 1)
    IN [heap |-> IF r < 0 THEN heap
                 ELSE [heap EXCEPT ![obj[r + 1]][col + 1] = player],
        newBoard |-> obj]

\* board.map((row) => [...row]) allocates a copy of every row; the loop then
\* writes the first empty cell of col, from the bottom, in the copy.
makeMoveOnHeap(heap, obj, col, player) ==
    LET copied == heap \o Deref(heap, obj)
        newBoard == <<Len(heap) + 1, Len(heap) + 2, Len(heap) + 3,
                      Len(heap) + 4, Len(heap) + 5, Len(heap) + 6>>
        r == DropRow(Deref(copied, newBoard), col, ROWS - 1)
    IN [heap |-> IF r < 0 THEN copied
                 ELSE [copied EXCEPT ![newBoard[r + 1]][col + 1] = player],
        newBoard |-> newBoard]

(***************************************************************************)
(* Direct calls of the board functions.  The boards are those of a fixed   *)
(* legal opening, cut off after any number of moves and continued by up to *)
(* MaxDrops legal drops.                                                   *)
(***************************************************************************)
MaxDrops == 2        \* legal drops that continue the opening

\* A legal game without a four: the columns dropped into, PLAYER first.
OpeningMoves == <<0, 3, 3, 2, 5, 4, 4, 6, 1, 5, 6, 2, 6, 5, 0, 2, 4,
                  6, 4, 0, 2, 0, 5, 0, 0, 1, 1, 6, 5, 6, 1, 1, 1>>

Mover(n) == IF n % 2 = 0 THEN PLAYER ELSE BOT

RECURSIVE PlayOpening(_, _, _)
\* The opening played on from board b, which holds its first i - 1 moves, to
\* its n-th move; every move is a legal drop.
PlayOpening(b, i, n) ==
    IF i > n \/ ~isValidMove(b, OpeningMoves[i]) THEN b
    ELSE PlayOpening(makeMove(b, OpeningMoves[i], Mover(i - 1)), i + 1, n)

\* The board after the first n moves of the opening.
Opening(n) == PlayOpening(createEmptyBoard, 1, n)

\* A whole game of 42 legal moves that fills the board without a
\* four-in-a-row; it leaves the opening after 25 moves.
DrawMoves == <<0, 3, 3, 2, 5, 4, 4, 6, 1, 5, 6, 2, 6, 5, 0, 2, 4,
               6, 4, 0, 2, 0, 5, 0, 0, 2, 1, 2, 1, 1, 1, 3, 1, 3,
               5, 3, 3, 4, 4, 6, 5, 6>>

RECURSIVE PlayDraw(_, _, _)
\* The drawn game played on from board b, which holds its first i - 1 moves,
\* to its n-th move.
PlayDraw(b, i, n) ==
    IF i > n \/ ~isValidMove(b, DrawMoves[i]) THEN b
    ELSE PlayDraw(makeMove(b, DrawMoves[i], Mover(i - 1)), i + 1, n)

\* The board after the first n moves of the drawn game.
Draw(n) == PlayDraw(createEmptyBoard, 1, n)

\* The columns makeMove is called with: every column and one on either side.
CallCols == -1 .. COLS

InitBoard ==
    /\ \E n \in 0 .. Len(DrawMoves) : \E b \in {Draw(n)} \cup {Opening(k) : k \in {n} \cap (0 .. Len(OpeningMoves))} :
          /\ board = b
          /\ currentPlayer = Mover(n)
          /\ gameState = (IF isBoardFull(b) THEN "finished" ELSE "playing")
    /\ winner = 0
    /\ config = [algorithm |-> "alphabeta", searchDepth |-> DefaultSearchDepth,
                 playerStarts |-> TRUE]
    /\ metrics = ResetMetrics
    /\ transpositionTable = EmptyTable
    /\ pending = << >>
    /\ game = 1
    /\ clicks = 0
    /\ writer = << >>
    /\ probe = NoCall

\* The player to move drops a piece into a column that is not full, and the
\* game goes on as the move handlers decide.
Drop(col) ==
    /\ gameState = "playing"
    /\ isValidMove(board, col)
    /\ clicks < MaxDrops
    /\ clicks' = clicks + 1
    /\ \E newBoard \in {makeMove(board, col, currentPlayer)} :
       \E w \in {checkWinner(newBoard)} :
          /\ board' = newBoard
          /\ IF w # 0
             THEN winner' = w /\ gameState' = "finished" /\ UNCHANGED currentPlayer
             ELSE IF isBoardFull(newBoard)
             THEN gameState' = "finished" /\ UNCHANGED <<winner, currentPlayer>>
             ELSE /\ currentPlayer' = (IF currentPlayer = PLAYER THEN BOT ELSE PLAYER)
                  /\ UNCHANGED <<gameState, winner>>
    /\ probe' = NoCall
    /\ UNCHANGED <<config, metrics, transpositionTable, pending, game, writer>>

\* makeMove(board, col, player) is called; the function has no throw
\* statement, so the call returns.
CallMakeMove(col, player) ==
    /\ \E res \in {makeMoveOnHeap(HeapOf(board), ObjectOf(board), col, player)} :
          probe' = [op |-> "makeMove", board |-> board, col |-> col,
                    player |-> player, error |-> "none",
                    inputAfter |-> Deref(res.heap, ObjectOf(board)),
                    output |-> Deref(res.heap, res.newBoard),
                    returned |-> makeMove(board, col, player)]
    /\ UNCHANGED <<gameState, board, currentPlayer, winner, config, metrics,
                   transpositionTable, pending, game, clicks, writer>>

CallCheckWinner ==
    /\ probe' = [op |-> "checkWinner", board |-> board,
                 result |-> checkWinner(board)]
    /\ UNCHANGED <<gameState, board, currentPlayer, winner, config, metrics,
                   transpositionTable, pending, game, clicks, writer>>

\* getValidMoves(board) and isBoardFull(board) are called.
CallGetValidMoves ==
    /\ probe' = [op |-> "getValidMoves", board |-> board,
                 result |-> getValidMoves(board),
                 full |-> isBoardFull(board)]
    /\ UNCHANGED <<gameState, board, currentPlayer, winner, config, metrics,
                   transpositionTable, pending, game, clicks, writer>>

\* The two table keys the searches build for a board and the side to move:
\* hash + "-max" or "-min" (the bot moves at a maximizing node) and
\* hash + "-" + currentPlayer.
KeysOf(b, mover) ==
    [transposition |-> TranspositionKey(b, mover = BOT),
     memory |-> MemoryKey(b, mover)]

\* The boards whose keys are compared with those of b: b itself, b after one
\* more piece, and the boards of the two recorded games with as many pieces.
OtherBoards(b) ==
    {b} \cup {makeMove(b, c, p) : c \in Cols, p \in {PLAYER, BOT}}
        \cup {Opening(Min(Pieces(b), Len(OpeningMoves))), Draw(Pieces(b))}

\* The keys of two lookups or stores are built: one for the board with mover
\* to move, one for other with otherMover to move.
CallKeys(other, mover, otherMover) ==
    /\ probe' = [op |-> "keys", board |-> board, mover |-> mover,
                 other |-> other, otherMover |-> otherMover,
                 key |-> KeysOf(board, mover),
                 otherKey |-> KeysOf(other, otherMover)]
    /\ UNCHANGED <<gameState, board, currentPlayer, winner, config, metrics,
                   transpositionTable, pending, game, clicks, writer>>

NextBoard ==
    \/ \E col \in Cols : Drop(col)
    \/ \E col \in CallCols : \E player \in {PLAYER, BOT} : CallMakeMove(col, player)
    \/ CallCheckWinner
    \/ CallGetValidMoves

SpecBoard == InitBoard /\ [][NextBoard]_vars

\* The keys are built once for each board reached: the boards of the two
\* recorded games and of the drops that follow them.
NextKeys ==
    \/ \E col \in Cols : Drop(col)
    \/ \E other \in OtherBoards(board) : \E mover, otherMover \in {PLAYER, BOT} :
          probe = NoCall /\ CallKeys(other, mover, otherMover)

SpecKeys == InitBoard /\ [][NextKeys]_vars

(***************************************************************************)
(* Properties of the board functions.                                      *)
(***************************************************************************)
\* A column a piece can be dropped into: on the board and not full.
Droppable(b, col) == col \in Cols /\ Cell(b, 0, col) = 0

\* The lowest empty row of a column that is not full.
LowestEmptyRow(b, col) ==
    CHOOSE r \in Rows : Cell(b, r, col) = 0 /\ \A q \in Rows : q > r => Cell(b, q, col) # 0

\* The cells in which two boards differ.
Differences(a, b) == {rc \in Rows \X Cols : At(a, rc) # At(b, rc)}

\* C4 as stated: makeMove on a column that is full or out of range fails with
\* IllegalMove and returns no board.
C4_IllegalMoveFails ==
    (probe.op = "makeMove" /\ ~Droppable(probe.board, probe.col)) =>
        probe.error = "IllegalMove"

\* C4 amended: makeMove on a column that is full or out of range raises no
\* error and returns a new board equal to its input, which it leaves alone.
C4_IllegalMoveReturnsCopy ==
    (probe.op = "makeMove" /\ ~Droppable(probe.board, probe.col)) =>
        /\ probe.error = "none"
        /\ probe.output = probe.board
        /\ probe.returned = probe.board
        /\ probe.inputAfter = probe.board

\* C4's cases: a call on a full column, and calls on either side of the board.
C4_WitnessFull ==
    /\ probe.op = "makeMove"
    /\ probe.col \in Cols
    /\ ~Droppable(probe.board, probe.col)
    /\ ~isBoardFull(probe.board)

\* C6: makeMove on a droppable column leaves its input unchanged, and its
\* output differs from the input in exactly one cell: the lowest empty row of
\* that column, which holds the given player's piece.
C6_MakeMoveOneCell ==
    (probe.op = "makeMove" /\ Droppable(probe.board, probe.col)) =>
        /\ probe.inputAfter = probe.board
        /\ Differences(probe.board, probe.output)
              = {<<LowestEmptyRow(probe.board, probe.col), probe.col>>}
        /\ At(probe.output, <<LowestEmptyRow(probe.board, probe.col), probe.col>>)
              = probe.player
        /\ probe.returned = probe.output

\* C6's case: a piece dropped onto a column that already holds pieces.
C6_Witness ==
    /\ probe.op = "makeMove"
    /\ Droppable(probe.board, probe.col)
    /\ LowestEmptyRow(probe.board, probe.col) < ROWS - 1
    /\ probe.output # probe.board

\* The four directions of a line: right, down, down-right, up-right.
Directions == {<<0, 1>>, <<1, 0>>, <<1, 1>>, <<-1, 1>>}

\* Player p has four consecutive pieces in a line somewhere on the board.
HasFour(b, p) ==
    \E r \in Rows : \E c \in Cols : \E d \in Directions :
        \A k \in 0 .. 3 :
            /\ r + k * d[1] \in Rows
            /\ c + k * d[2] \in Cols
            /\ Cell(b, r + k * d[1], c + k * d[2]) = p

\* Player p has three consecutive pieces in a line and no four.
HasBlockedThree(b, p) ==
    /\ ~HasFour(b, p)
    /\ \E r \in Rows : \E c \in Cols : \E d \in Directions :
          \A k \in 0 .. 2 :
              /\ r + k * d[1] \in Rows
              /\ c + k * d[2] \in Cols
              /\ Cell(b, r + k * d[1], c + k * d[2]) = p

\* C8: on a board where at most one player has a four, checkWinner returns p
\* exactly when p has four consecutive pieces in a horizontal, vertical,
\* rising or falling line, and 0 otherwise.
C8_CheckWinnerExact ==
    (probe.op = "checkWinner"
        /\ ~(HasFour(probe.board, PLAYER) /\ HasFour(probe.board, BOT))) =>
        /\ \A p \in {PLAYER, BOT} : (probe.result = p) <=> HasFour(probe.board, p)
        /\ (probe.result = 0) <=>
              (~HasFour(probe.board, PLAYER) /\ ~HasFour(probe.board, BOT))

\* C8's cases: a four found on a board where the other side has three in a
\* row and no four.
C8_Witness ==
    /\ probe.op = "checkWinner"
    /\ probe.result = BOT
    /\ HasBlockedThree(probe.board, PLAYER)

(***************************************************************************)
(* Direct calls of findBestMove.  A game goes on from the end of the       *)
(* opening, where the bot is to move: the bot calls findBestMove with the  *)
(* arguments in config and the table its calls have left, then drops into  *)
(* the column the last call returned; the human drops anywhere.            *)
(***************************************************************************)
MaxProbeDepth == 4   \* findBestMove is called with depths up to MaxProbeDepth
LowDepths == 2       \* and with the LowDepths depths from 0 down
MaxRepeats == 1      \* a call is repeated at most MaxRepeats times on a board

ProbeDepths == (1 - LowDepths) .. MaxProbeDepth

StaleClicks == 2     \* the human clicks up to StaleClicks times after a stale call
SoundDepth == 1      \* stored entries are compared with minimax up to this depth

\* What findBestMove returns to its caller.
Outcome(r) == [col |-> r.col, evaluation |-> r.evaluation, nodes |-> r.nodes]

\* The three algorithms on the same board and depth, each from an empty table.
FreshOutcomes(b, depth) ==
    [alphabeta |-> Outcome(findBestMove(b, "alphabeta", depth, EmptyTable)),
     transposition |-> Outcome(findBestMove(b, "transposition", depth, EmptyTable)),
     mtdf |-> Outcome(findBestMove(b, "mtdf", depth, EmptyTable))]

\* How many calls in a row the probe has seen on board b.
CallsOn(b) ==
    IF probe.op = "findBestMove" /\ probe.board = b THEN probe.calls ELSE 0

\* The bot, which started, has its pieces in columns 1, 2 and 3 of the bottom
\* row, columns 0 and 4 are open, and it is the bot's turn.
OpenThree ==
    makeMove(makeMove(makeMove(makeMove(makeMove(makeMove(
        createEmptyBoard, 1, BOT), 1, PLAYER), 2, BOT), 2, PLAYER), 3, BOT), 6, PLAYER)

\* The boards the calls start from: the end of the opening at every depth, and
\* the open three at the depths of the slider.
StartBoards(depth) ==
    {Opening(Len(OpeningMoves))} \cup (IF depth >= MinSearchDepth THEN {OpenThree} ELSE {})

InitSearch ==
    /\ \E a \in Algorithms : \E d \in ProbeDepths : \E b \in StartBoards(d) :
          /\ board = b
          /\ config = [algorithm |-> a, searchDepth |-> d, playerStarts |-> b # OpenThree]
    /\ currentPlayer = BOT
    /\ gameState = "playing"
    /\ winner = 0
    /\ metrics = ResetMetrics
    /\ transpositionTable = EmptyTable
    /\ pending = << >>
    /\ game = 1
    /\ clicks = 0
    /\ writer = << >>
    /\ probe = NoCall

\* findBestMove(board, config.algorithm, config.searchDepth) is called on the
\* table as it is; the function has no throw statement, so the call returns.
\* The probe also holds what each algorithm returns from an empty table.
CallFindBestMove ==
    /\ gameState = "playing"
    /\ currentPlayer = BOT
    /\ CallsOn(board) <= MaxRepeats
    /\ \E res \in {findBestMove(board, config.algorithm, config.searchDepth,
                                transpositionTable)} :
       \E fresh \in {FreshOutcomes(board, config.searchDepth)} :
          /\ transpositionTable' = res.tt
          /\ writer' = Writers(transpositionTable, res.tt, writer, game)
          /\ metrics' = [nodesSearched |-> res.nodes, evaluation |-> res.evaluation,
                         isThinking |-> FALSE]
          /\ probe' = [op |-> "findBestMove", board |-> board,
                       algorithm |-> config.algorithm,
                       depth |-> config.searchDepth,
                       calls |-> CallsOn(board) + 1,
                       warm |-> transpositionTable # EmptyTable,
                       error |-> "none",
                       result |-> Outcome(res),
                       fresh |-> fresh]
    /\ UNCHANGED <<gameState, board, currentPlayer, winner, config, pending, game,
                   clicks>>

\* The bot drops its piece into the column its last call returned.
BotDrop ==
    /\ gameState = "playing"
    /\ currentPlayer = BOT
    /\ CallsOn(board) > 0
    /\ \E newBoard \in {makeMove(board, probe.result.col, BOT)} :
       \E w \in {checkWinner(newBoard)} :
          /\ board' = newBoard
          /\ IF w # 0
             THEN winner' = w /\ gameState' = "finished" /\ UNCHANGED currentPlayer
             ELSE IF isBoardFull(newBoard)
             THEN gameState' = "finished" /\ UNCHANGED <<winner, currentPlayer>>
             ELSE currentPlayer' = PLAYER /\ UNCHANGED <<gameState, winner>>
    /\ UNCHANGED <<config, metrics, transpositionTable, pending, game, clicks,
                   writer, probe>>

NextSearch ==
    \/ \E col \in Cols : currentPlayer = PLAYER /\ Drop(col)
    \/ CallFindBestMove
    \/ BotDrop

SpecSearch == InitSearch /\ [][NextSearch]_vars

\* The elements of a sequence.
Range(seq) == {seq[i] : i \in 1 .. Len(seq)}

\* Every cell of b holds a piece.
FullyOccupied(b) == \A r \in Rows : \A c \in Cols : Cell(b, r, c) # 0

\* C14: getValidMoves returns columns of 0..6 in strictly ascending order,
\* exactly the columns whose top-row cell is empty; on a fully occupied board
\* it returns the empty sequence and isBoardFull is true.
C14_ValidMovesAscendingExact ==
    probe.op = "getValidMoves" =>
        /\ \A i \in 1 .. Len(probe.result) - 1 : probe.result[i] < probe.result[i + 1]
        /\ Range(probe.result) = {c \in Cols : Cell(probe.board, 0, c) = 0}
        /\ FullyOccupied(probe.board) => probe.result = << >> /\ probe.full

\* C14's case: a board with full columns between open ones, where the call
\* returns several columns and leaves the full ones out.
C14_Witness ==
    /\ probe.op = "getValidMoves"
    /\ Len(probe.result) >= 2
    /\ \E c \in Cols : /\ Cell(probe.board, 0, c) # 0
                       /\ probe.result[1] < c
                       /\ c < probe.result[Len(probe.result)]

\* C14's second case: the drawn game played to its end, a fully occupied
\* board without a four-in-a-row, on which the call returns no column.
C14_WitnessDraw ==
    /\ probe.op = "getValidMoves"
    /\ FullyOccupied(probe.board)
    /\ checkWinner(probe.board) = 0
    /\ gameState = "finished" /\ winner = 0
    /\ probe.result = << >>

\* C15: two lookups or stores use the same key if and only if their boards
\* are equal cell for cell and the same side is to move, with the keys of
\* either table-using search; so the same board with different movers has
\* different keys.
C15_KeyInjective ==
    probe.op = "keys" =>
        LET same == probe.board = probe.other /\ probe.mover = probe.otherMover
        IN /\ (probe.key.transposition = probe.otherKey.transposition) <=> same
           /\ (probe.key.memory = probe.otherKey.memory) <=> same

\* C15's case: the keys of one board, with pieces on it, built for the two
\* sides to move.
C15_Witness ==
    /\ probe.op = "keys"
    /\ Pieces(probe.board) > 0
    /\ probe.board = probe.other
    /\ probe.mover # probe.otherMover
    /\ probe.key.transposition # probe.otherKey.transposition
    /\ probe.key.memory # probe.otherKey.memory

\* C15's second case: two different boards with the same number of pieces,
\* built for the same side to move.
C15_WitnessTwoBoards ==
    /\ probe.op = "keys"
    /\ probe.mover = probe.otherMover
    /\ probe.board # probe.other
    /\ Pieces(probe.board) = Pieces(probe.other)
    /\ probe.key.transposition # probe.otherKey.transposition
    /\ probe.key.memory # probe.otherKey.memory

(***************************************************************************)
(* Properties of findBestMove.                                             *)
(***************************************************************************)
\* Two outcomes name the same column with the same evaluation.
SameMove(x, y) == x.col = y.col /\ x.evaluation = y.evaluation

\* C1: on a board reached by legal play, without a winner and with a legal
\* column, at a depth of at least 1 and from an empty table, 'alphabeta',
\* 'transposition' and 'mtdf' return the same column and the same evaluation.
C1_AlgorithmsAgree ==
    (probe.op = "findBestMove" /\ probe.depth >= 1) =>
        /\ SameMove(probe.fresh.alphabeta, probe.fresh.transposition)
        /\ SameMove(probe.fresh.alphabeta, probe.fresh.mtdf)

\* C1's case: a search deep enough for the table to cut the tree, the three
\* algorithms visiting different numbers of nodes on the way to one answer.
C1_Witness ==
    /\ probe.op = "findBestMove"
    /\ probe.depth >= 3
    /\ probe.fresh.transposition.nodes < probe.fresh.alphabeta.nodes
    /\ probe.fresh.mtdf.nodes # probe.fresh.alphabeta.nodes
    /\ SameMove(probe.fresh.alphabeta, probe.fresh.mtdf)

\* C2: with 'transposition' and 'mtdf' at a depth of at least 1, a call on the
\* table left by the earlier turns of the game, or by the same call made just
\* before, returns the column and evaluation it returns from an empty table.
C2_CacheReuseKeepsResult ==
    (probe.op = "findBestMove" /\ probe.depth >= 1
        /\ probe.algorithm \in {"transposition", "mtdf"}) =>
        SameMove(probe.result, probe.fresh[probe.algorithm])

\* C2's case: a call that found entries in the table and visited fewer nodes
\* than the same call from an empty table.
C2_Witness ==
    /\ probe.op = "findBestMove"
    /\ probe.depth >= 1
    /\ probe.algorithm \in {"transposition", "mtdf"}
    /\ probe.warm
    /\ probe.result.nodes < probe.fresh[probe.algorithm].nodes

\* The legal columns in which a bot piece completes a four-in-a-row on b.
BotWins(b) ==
    {col \in Cols : isValidMove(b, col) /\ checkWinner(makeMove(b, col, BOT)) = BOT}

\* C12: when the bot has a legal column that completes a four-in-a-row, at
\* every depth of the slider (1 and more), findBestMove returns such a column
\* with an evaluation of at least 10000: under every algorithm from an empty
\* table, and under the configured algorithm on the table as the game left it.
C12_TakesTheWin ==
    (probe.op = "findBestMove" /\ probe.depth >= MinSearchDepth
        /\ BotWins(probe.board) # {}) =>
        \A x \in {probe.result, probe.fresh.alphabeta, probe.fresh.transposition,
                  probe.fresh.mtdf} :
            x.col \in BotWins(probe.board) /\ x.evaluation >= WinScore

\* C12's case: the open three of the bottom row searched at depth 4 or more,
\* where columns 0 and 4 both win and the call returns one of them.
C12_Witness ==
    /\ probe.op = "findBestMove"
    /\ probe.board = OpenThree
    /\ probe.depth >= 4
    /\ BotWins(probe.board) = {0, 4}
    /\ probe.result.col \in BotWins(probe.board)

\* C12's case in the middle game: a board reached from the opening on which
\* the bot has a winning column and takes it.
C12_WitnessMiddleGame ==
    /\ probe.op = "findBestMove"
    /\ probe.board # OpenThree
    /\ probe.depth >= MinSearchDepth
    /\ BotWins(probe.board) # {}
    /\ probe.result.col \in BotWins(probe.board)

\* C13: on the same board and at the same depth, each from an empty table,
\* findBestMove with 'transposition' returns a node count that is at most the
\* node count it returns with 'alphabeta'.
C13_TableNeverVisitsMore ==
    probe.op = "findBestMove" =>
        probe.fresh.transposition.nodes <= probe.fresh.alphabeta.nodes

\* C13's case: a search below the root columns in which the table is hit, so
\* that 'transposition' visits fewer nodes than 'alphabeta' and returns the
\* same move.
C13_Witness ==
    /\ probe.op = "findBestMove"
    /\ probe.depth >= 2
    /\ probe.fresh.alphabeta.nodes > Len(getValidMoves(probe.board))
    /\ probe.fresh.transposition.nodes < probe.fresh.alphabeta.nodes
    /\ SameMove(probe.fresh.transposition, probe.fresh.alphabeta)

RECURSIVE Minimax(_, _, _)
RECURSIVE MinimaxOver(_, _, _, _, _, _)

\* The depth-limited minimax value of b for the bot, without pruning and
\* without a table: a win counts 10000 + depth for its side, a board at depth
\* 0 or full counts evaluateBoard.
Minimax(b, depth, maximizing) ==
    LET w == checkWinner(b)
    IN IF w = BOT THEN WinScore + depth
       ELSE IF w = PLAYER THEN -WinScore - depth
       ELSE IF depth = 0 \/ isBoardFull(b) THEN evaluateBoard(b, BOT)
       ELSE MinimaxOver(b, depth, maximizing, getValidMoves(b), 1,
                        IF maximizing THEN -Infinity ELSE Infinity)

\* The best of the values below columns validMoves[i] and after.
MinimaxOver(b, depth, maximizing, validMoves, i, best) ==
    IF i > Len(validMoves) THEN best
    ELSE LET v == Minimax(makeMove(b, validMoves[i], IF maximizing THEN BOT ELSE PLAYER),
                          depth - 1, ~maximizing)
         IN MinimaxOver(b, depth, maximizing, validMoves, i + 1,
                        IF maximizing THEN Max(best, v) ELSE Min(best, v))

RECURSIVE RootScoresFrom(_, _, _, _)
\* The scores of the root children: for each legal column, from validMoves[i]
\* on, the value of the board after the bot's piece at depth - 1.
RootScoresFrom(b, depth, validMoves, i) ==
    IF i > Len(validMoves) THEN << >>
    ELSE <<Minimax(makeMove(b, validMoves[i], BOT), depth - 1, FALSE)>>
             \o RootScoresFrom(b, depth, validMoves, i + 1)

RootScores(b, depth) == RootScoresFrom(b, depth, getValidMoves(b), 1)

\* Outcome x names the first column, among validMoves, whose score in scores
\* is the greatest, and that score.
FirstBest(validMoves, scores, x) ==
    \E i \in 1 .. Len(validMoves) :
        /\ x.col = validMoves[i]
        /\ x.evaluation = scores[i]
        /\ \A j \in 1 .. Len(validMoves) :
               scores[j] <= scores[i] /\ (j < i => scores[j] < scores[i])

\* C16: at a depth of 1 or more, under every algorithm, findBestMove returns
\* the lowest legal column whose root-child score is the greatest root-child
\* score of all legal columns, and that score as its evaluation.
C16_LowestBestColumn ==
    (probe.op = "findBestMove" /\ probe.depth >= MinSearchDepth) =>
        \A scores \in {RootScores(probe.board, probe.depth)} :
        \A x \in {probe.result, probe.fresh.alphabeta, probe.fresh.transposition,
                  probe.fresh.mtdf} :
            FirstBest(getValidMoves(probe.board), scores, x)

\* C16's case: two legal columns share the greatest root-child score, and
\* the call returns the lower of them.
C16_Witness ==
    /\ probe.op = "findBestMove"
    /\ probe.depth >= MinSearchDepth
    /\ \E scores \in {RootScores(probe.board, probe.depth)} :
       \E i, j \in 1 .. Len(scores) :
          /\ i < j
          /\ scores[i] = scores[j]
          /\ \A k \in 1 .. Len(scores) : scores[k] <= scores[i]
          /\ probe.result.col = getValidMoves(probe.board)[i]
          /\ probe.result.evaluation = scores[i]

\* The digit of a key read back as a cell.
CellOf(ch) == IF ch = "0" THEN 0 ELSE IF ch = "1" THEN PLAYER ELSE BOT

\* The board a table key was built from: the cell of row r and column c is
\* the digit at place r * (COLS + 1) + c + 1.
KeyBoard(k) ==
    [r \in 1 .. ROWS |-> [c \in 1 .. COLS |-> CellOf(k[(r - 1) * (COLS + 1) + c])]]

\* The side to move a table key was built for is the bot: the suffix is
\* "max", or the bot's number.
KeyMaximizing(k) == k[Len(k)] \in {"max", Digit(BOT)}

\* Entry e stored under key k is a sound bound of the minimax value of the
\* key's board and mover at the depth stored.
Sound(k, e) ==
    \A v \in {Minimax(KeyBoard(k), e.depth, KeyMaximizing(k))} :
        /\ e.flag = "EXACT" => e.score = v
        /\ e.flag = "LOWERBOUND" => e.score <= v
        /\ e.flag = "UPPERBOUND" => e.score >= v

\* The keys whose entry a step stores or replaces.
Written == {k \in DOMAIN transpositionTable' :
               ~TableHas(transpositionTable, k) \/ transpositionTable'[k] # transpositionTable[k]}

\* The second game of a session in which New Game was pressed while the bot
\* was thinking about its first move: with the default depth the bot was set
\* to start, Start Game scheduled its makeBotMove call, New Game came within
\* the delay, the slider was moved to SessionDepth and Start Game was pressed
\* again.  The first game's call is still pending, on the board and config
\* it closed over.
InitStale ==
    /\ gameState = "playing"
    /\ board = createEmptyBoard
    /\ winner = 0
    /\ \E a \in {"transposition", "mtdf"} : \E p \in BOOLEAN :
          /\ config = [algorithm |-> a, searchDepth |-> SessionDepth, playerStarts |-> p]
          /\ currentPlayer = (IF p THEN PLAYER ELSE BOT)
          /\ LET stale == [board |-> createEmptyBoard,
                           config |-> [algorithm |-> a,
                                       searchDepth |-> DefaultSearchDepth,
                                       playerStarts |-> FALSE],
                           game |-> 1]
                 e == BotTurnEffect("playing", createEmptyBoard, currentPlayer, config,
                                    ResetMetrics, <<stale>>, 2)
             IN metrics = e.metrics /\ pending = e.pending
    /\ transpositionTable = EmptyTable
    /\ game = 2
    /\ clicks = 0
    /\ writer = << >>
    /\ probe = NoCall

\* The second game is played: the pending calls resume in the order they were
\* scheduled, and the human clicks any column once they have, up to
\* StaleClicks times.
NextStale ==
    \/ \E col \in Cols : clicks < StaleClicks /\ pending = << >> /\ handlePlayerMove(col)
    \/ makeBotMove

SpecStale == InitStale /\ [][NextStale]_vars

\* C17: every entry a search stores is a sound bound for the board and mover
\* of its key at the depth stored with it: EXACT is the depth-limited minimax
\* value, LOWERBOUND is at most that value, UPPERBOUND at least.  Stated for
\* the entries stored with a depth of 0 .. SoundDepth.
C17_StoredEntriesSound ==
    [][\A k \in Written :
          transpositionTable'[k].depth \in 0 .. SoundDepth =>
              Sound(k, transpositionTable'[k])]_vars

MaxMtdfDepth == 2    \* mtdfAlgorithm is called with depths 0 .. MaxMtdfDepth
MaxMtdfCalls == 2    \* calls in a row on the same table
OpeningBack == 1     \* the opening is cut off up to OpeningBack bot turns early
GuessNear == 5       \* a first guess among the values of evaluateBoard

FirstGuesses == {-WinScore, -GuessNear, 0, GuessNear, WinScore}

\* The call has left the loop.
Returned == probe.op = "mtdfAlgorithm" /\ probe.done

\* The call is in the loop.
Running == probe.op = "mtdfAlgorithm" /\ ~probe.done

InitMtdf ==
    /\ \E k \in 0 .. OpeningBack : board = Opening(Len(OpeningMoves) - 2 * k)
    /\ currentPlayer = Mover(Len(OpeningMoves))
    /\ gameState = "playing"
    /\ winner = 0
    /\ config = [algorithm |-> "mtdf", searchDepth |-> DefaultSearchDepth,
                 playerStarts |-> TRUE]
    /\ metrics = ResetMetrics
    /\ transpositionTable = EmptyTable
    /\ pending = << >>
    /\ game = 1
    /\ clicks = 0
    /\ writer = << >>
    /\ probe = NoCall

\* mtdfAlgorithm(makeMove(board, col, BOT), depth, firstGuess, PLAYER, BOT) is
\* entered: g = firstGuess, lowerBound = -Infinity, upperBound = Infinity.
CallMtdf(col, depth, firstGuess) ==
    /\ ~Running
    /\ isValidMove(board, col)
    /\ (IF Returned THEN probe.calls ELSE 0) < MaxMtdfCalls
    /\ probe' = [op |-> "mtdfAlgorithm", board |-> makeMove(board, col, BOT),
                 depth |-> depth, firstGuess |-> firstGuess,
                 calls |-> (IF Returned THEN probe.calls ELSE 0) + 1,
                 warm |-> transpositionTable # EmptyTable,
                 g |-> firstGuess, lowerBound |-> -Infinity, upperBound |-> Infinity,
                 passes |-> 0, nodes |-> 0, done |-> FALSE]
    /\ UNCHANGED <<gameState, board, currentPlayer, winner, config, metrics,
                   transpositionTable, pending, game, clicks, writer>>

\* One pass of the loop "while (lowerBound < upperBound)".
MtdfIterate ==
    /\ Running
    /\ probe.lowerBound < probe.upperBound
    /\ \E p \in {MtdfPass(probe.board, probe.depth, probe.g, probe.lowerBound,
                           probe.upperBound, PLAYER, BOT, probe.nodes,
                           transpositionTable)} :
          /\ probe' = [probe EXCEPT !.g = p.g, !.lowerBound = p.lowerBound,
                                    !.upperBound = p.upperBound,
                                    !.passes = probe.passes + 1,
                                    !.nodes = p.nodes]
          /\ transpositionTable' = p.tt
          /\ writer' = Writers(transpositionTable, p.tt, writer, game)
    /\ UNCHANGED <<gameState, board, currentPlayer, winner, config, metrics,
                   pending, game, clicks>>

\* The loop condition fails and mtdfAlgorithm returns g.
MtdfReturn ==
    /\ Running
    /\ ~(probe.lowerBound < probe.upperBound)
    /\ probe' = [probe EXCEPT !.done = TRUE]
    /\ UNCHANGED <<gameState, board, currentPlayer, winner, config, metrics,
                   transpositionTable, pending, game, clicks, writer>>

NextMtdf ==
    \/ \E col \in Cols : \E depth \in 0 .. MaxMtdfDepth : \E firstGuess \in FirstGuesses :
          CallMtdf(col, depth, firstGuess)
    \/ MtdfIterate
    \/ MtdfReturn

SpecMtdf == InitMtdf /\ [][NextMtdf]_vars

\* A pass strictly lowers upperBound or strictly raises lowerBound.
Tightens ==
    (Running /\ probe'.op = "mtdfAlgorithm" /\ probe'.passes = probe.passes + 1) =>
        \/ probe'.upperBound < probe.upperBound /\ probe'.lowerBound = probe.lowerBound
        \/ probe'.lowerBound > probe.lowerBound /\ probe'.upperBound = probe.upperBound

\* Every score of a search lies strictly between -ScoreTop and ScoreTop.
ScoreTop == WinScore + ROWS * COLS + MaxMtdfDepth + 1

\* The scores the bounds of a call still leave open.
Span(p) == Min(p.upperBound, ScoreTop) - Max(p.lowerBound, -ScoreTop)

\* C3: mtdfAlgorithm terminates for any board, depth, firstGuess and table:
\* every pass strictly lowers upperBound or raises lowerBound, so the passes
\* a call has made and the scores its bounds leave open never add up to more
\* than the scores there are, and the loop ends.
C3_MtdfTerminates ==
    /\ [][Tightens]_vars
    /\ [](probe.op = "mtdfAlgorithm" => probe.passes + Span(probe) <= 2 * ScoreTop)

\* C3's case: a call on a table holding entries of earlier calls returned
\* after passes that moved both bounds.
C3_Witness ==
    /\ Returned
    /\ probe.warm
    /\ probe.passes >= 3
    /\ probe.lowerBound > -Infinity
    /\ probe.upperBound < Infinity

(***************************************************************************)
(* The mtdf branch of findBestMove, one mtdfAlgorithm call at a time.  The  *)
(* probe holds the locals of the branch and the calls made so far.         *)
(***************************************************************************)
\* Bounds of the model.
MaxDeepening == 3    \* the branch is entered with depths 0 .. MaxDeepening

\* The locals of the branch at its entry: bestCol and bestScore of
\* findBestMove, firstGuess, and the loop "for d = 1 .. depth" at d = 1 with
\* its locals tempBestScore and tempBestCol, before column validMoves[i].
MtdfBranchEntry(b, depth) ==
    [depth |-> depth, d |-> 1, i |-> 1, firstGuess |-> 0,
     tempBestScore |-> -Infinity, tempBestCol |-> FirstOrUndefined(getValidMoves(b)),
     bestScore |-> -Infinity, bestCol |-> FirstOrUndefined(getValidMoves(b))]

\* The branch deepening column by column: the call for column validMoves[i]
\* at depth d is followed by the call for the same column at depth d + 1, fed
\* with its own score as first guess, and the column is compared when its
\* own deepening has finished.
MtdfBranchStepPerColumn(l, validMoves, r) ==
    IF l.d < l.depth
    THEN [l EXCEPT !.d = l.d + 1, !.firstGuess = r.score]
    ELSE LET better == r.score > l.bestScore
         IN [l EXCEPT !.d = IF l.i = Len(validMoves) THEN l.depth + 1 ELSE 1,
                      !.i = IF l.i = Len(validMoves) THEN 1 ELSE l.i + 1,
                      !.firstGuess = 0,
                      !.bestScore = IF better THEN r.score ELSE l.bestScore,
                      !.bestCol = IF better THEN validMoves[l.i] ELSE l.bestCol]

\* The locals after mtdfAlgorithm returned r for column validMoves[i] at depth
\* d: the comparison with tempBestScore, and after the last column the end
\* of iteration d of the outer loop.
MtdfBranchStep(l, validMoves, r) ==
    LET better == r.score > l.tempBestScore
        tempBestScore == IF better THEN r.score ELSE l.tempBestScore
        tempBestCol == IF better THEN validMoves[l.i] ELSE l.tempBestCol
    IN IF l.i < Len(validMoves)
       THEN [l EXCEPT !.i = l.i + 1, !.tempBestScore = tempBestScore,
                      !.tempBestCol = tempBestCol]
       ELSE [l EXCEPT !.d = l.d + 1, !.i = 1,
                      !.tempBestScore = -Infinity, !.tempBestCol = validMoves[1],
                      !.bestScore = tempBestScore, !.bestCol = tempBestCol,
                      !.firstGuess = tempBestScore]

\* The branch is in its loops.
InBranch == probe.op = "mtdfBranch" /\ ~probe.done

InitDeepening ==
    /\ \E depth \in 0 .. MaxDeepening :
          config = [algorithm |-> "mtdf", searchDepth |-> depth, playerStarts |-> TRUE]
    /\ board \in {Opening(Len(OpeningMoves) - 2 * k) : k \in 0 .. OpeningBack}
                    \cup (IF config.searchDepth >= MinSearchDepth THEN {OpenThree} ELSE {})
    /\ currentPlayer = BOT
    /\ gameState = "playing"
    /\ winner = 0
    /\ metrics = ResetMetrics
    /\ transpositionTable = EmptyTable
    /\ pending = << >>
    /\ game = 1
    /\ clicks = 0
    /\ writer = << >>
    /\ probe = NoCall

\* findBestMove(board, 'mtdf', config.searchDepth) is called and enters its
\* mtdf branch: on the empty table, and once more on the table the first call
\* left.
EnterMtdfBranch ==
    /\ \/ probe = NoCall
       \/ /\ probe.op = "mtdfBranch" /\ probe.done
          /\ probe.entryTable = EmptyTable /\ transpositionTable # EmptyTable
    /\ probe' = [op |-> "mtdfBranch", board |-> board, entryTable |-> transpositionTable,
                 l |-> MtdfBranchEntry(board, config.searchDepth),
                 nodes |-> 0, calls |-> << >>, done |-> FALSE]
    /\ UNCHANGED <<gameState, board, currentPlayer, winner, config, metrics,
                   transpositionTable, pending, game, clicks, writer>>

\* One iteration of the loop over validMoves: mtdfAlgorithm is called for
\* column validMoves[i] at depth d - 1 with firstGuess.
MtdfBranchCall ==
    /\ InBranch
    /\ probe.l.d <= probe.l.depth
    /\ \E validMoves \in {getValidMoves(probe.board)} :
       \E r \in {mtdfAlgorithm(makeMove(probe.board, validMoves[probe.l.i], BOT),
                               probe.l.d - 1, probe.l.firstGuess, PLAYER, BOT,
                               probe.nodes, transpositionTable)} :
          /\ probe' = [probe EXCEPT
                          !.l = MtdfBranchStep(probe.l, validMoves, r),
                          !.nodes = r.nodes,
                          !.calls = Append(probe.calls,
                                           [col |-> validMoves[probe.l.i], d |-> probe.l.d,
                                            firstGuess |-> probe.l.firstGuess,
                                            score |-> r.score])]
          /\ transpositionTable' = r.tt
          /\ writer' = Writers(transpositionTable, r.tt, writer, game)
    /\ UNCHANGED <<gameState, board, currentPlayer, winner, config, metrics,
                   pending, game, clicks>>

\* The loop "for d = 1 .. depth" ends and findBestMove returns bestCol,
\* bestScore and the node count.
MtdfBranchReturn ==
    /\ InBranch
    /\ ~(probe.l.d <= probe.l.depth)
    /\ probe' = [probe EXCEPT !.done = TRUE]
    /\ metrics' = [nodesSearched |-> probe.nodes, evaluation |-> probe.l.bestScore,
                   isThinking |-> FALSE]
    /\ UNCHANGED <<gameState, board, currentPlayer, winner, config,
                   transpositionTable, pending, game, clicks, writer>>

NextDeepening ==
    \/ EnterMtdfBranch
    \/ MtdfBranchCall
    \/ MtdfBranchReturn

SpecDeepening == InitDeepening /\ [][NextDeepening]_vars

\* The greatest score among the calls made at depth d.
RECURSIVE BestAtDepth(_, _, _)
BestAtDepth(calls, d, j) ==
    IF j > Len(calls) THEN -Infinity
    ELSE IF calls[j].d = d THEN Max(calls[j].score, BestAtDepth(calls, d, j + 1))
    ELSE BestAtDepth(calls, d, j + 1)

\* C18 as stated: the calls go column by column, the j-th call being depth
\* ((j - 1) mod depth) + 1 of column number ((j - 1) div depth) + 1, so that
\* all depths 1 .. depth of a column are run before the next column.
C18_ColumnByColumn ==
    probe.op = "mtdfBranch" =>
        \A j \in 1 .. Len(probe.calls) :
            /\ probe.calls[j].col =
                  getValidMoves(probe.board)[((j - 1) \div probe.l.depth) + 1]
            /\ probe.calls[j].d = ((j - 1) % probe.l.depth) + 1

\* C18 amended: the calls go depth by depth.  For each d = 1 .. depth in turn
\* every legal column is searched, in ascending order, at depth d - 1 with the
\* same first guess: 0 at d = 1 and after that the best score of depth d - 1.
\* Columns are compared within each depth, and findBestMove returns the first
\* best column of the last depth; it is what the mtdf branch returns as one
\* call.
C18_DepthByDepth ==
    probe.op = "mtdfBranch" =>
        LET validMoves == getValidMoves(probe.board)
            n == Len(validMoves)
            calls == probe.calls
        IN /\ \A j \in 1 .. Len(calls) :
                 /\ calls[j].d = ((j - 1) \div n) + 1
                 /\ calls[j].col = validMoves[((j - 1) % n) + 1]
                 /\ calls[j].firstGuess =
                       (IF calls[j].d = 1 THEN 0 ELSE BestAtDepth(calls, calls[j].d - 1, 1))
           /\ probe.done =>
                 /\ Len(calls) = Max(probe.l.depth, 0) * n
                 /\ probe.l.depth >= 1 =>
                       /\ probe.l.bestScore = BestAtDepth(calls, probe.l.depth, 1)
                       /\ \E j \in 1 .. Len(calls) :
                             /\ calls[j].d = probe.l.depth
                             /\ calls[j].col = probe.l.bestCol
                             /\ calls[j].score = probe.l.bestScore
                             /\ \A k \in 1 .. j - 1 :
                                   calls[k].d = probe.l.depth =>
                                       calls[k].score < probe.l.bestScore
                 /\ \A whole \in {findBestMove(probe.board, "mtdf", probe.l.depth,
                                               probe.entryTable)} :
                       /\ whole.col = probe.l.bestCol
                       /\ whole.evaluation = probe.l.bestScore
                       /\ whole.nodes = probe.nodes
                       /\ whole.tt = transpositionTable

\* C18's case: a call of depth 2 or more on a board with several legal
\* columns has returned; the second call was the second column at depth 1,
\* and the calls of the last depth had a first guess other than 0.
C18_Witness ==
    /\ probe.op = "mtdfBranch"
    /\ probe.done
    /\ probe.l.depth >= 2
    /\ Len(getValidMoves(probe.board)) >= 2
    /\ probe.calls[2].d = 1
    /\ probe.calls[2].col = getValidMoves(probe.board)[2]
    /\ probe.calls[Len(probe.calls)].d = probe.l.depth
    /\ probe.calls[Len(probe.calls)].firstGuess # 0

(***************************************************************************)
(* The searches node by node.  A call of findBestMove is followed through   *)
(* its loops and through every call of the search function it makes: the   *)
(* probe holds the locals of findBestMove, of the mtdfAlgorithm call in     *)
(* progress, and the stack of the search calls in progress, one frame for  *)
(* each.  invocations counts the calls of a search function made so far.   *)
(***************************************************************************)
\* Bounds of the model.
MaxNodeDepth == 4    \* findBestMove is followed at depths 1 .. MaxNodeDepth
NodeDrops == 1       \* the human drops up to NodeDrops pieces between searches

\* The frame of a search call at its entry: the arguments board, depth, alpha,
\* beta and the player to move (currentPlayer; the bot where maximizing is
\* true), and alphaOrig.  entry keeps the window as it was received and,
\* once the lookup is made, the entry the lookup found under the key.
NodeFrame(b, depth, alpha, beta, mover) ==
    [board |-> b, depth |-> depth, alpha |-> alpha, beta |-> beta, mover |-> mover,
     entry |-> [alpha |-> alpha, beta |-> beta, cached |-> << >>],
     alphaOrig |-> alpha, betaOrig |-> beta,
     validMoves |-> << >>, i |-> 1, best |-> 0, pc |-> "enter"]

\* The key a table-using search builds for its frame.
NodeKey(algorithm, f) ==
    IF algorithm = "mtdf" THEN MemoryKey(f.board, f.mover)
    ELSE TranspositionKey(f.board, f.mover = BOT)

\* The lookup of a frame; 'alphabeta' has no table.
NodeLookup(algorithm, f, tt) ==
    IF algorithm = "alphabeta"
    THEN [return |-> FALSE, score |-> 0, alpha |-> f.alpha, beta |-> f.beta]
    ELSE CacheLookup(tt, NodeKey(algorithm, f), f.depth, f.alpha, f.beta)

\* The entry the lookup of a frame finds under its key, if any.
NodeCached(algorithm, f, tt) ==
    IF algorithm # "alphabeta" /\ TableHas(tt, NodeKey(algorithm, f))
    THEN <<tt[NodeKey(algorithm, f)]>>
    ELSE << >>

\* betaOrig taken from the window as the call received it.
BetaOrigAtEntry(f, look) == f.entry.beta

\* "const betaOrig = beta", after the lookup has narrowed the window.
BetaOrig(f, look) == look.beta

\* The entry of a search call with depth tested before the winner.
NodeEnterDepthFirst(algorithm, f, tt) ==
    LET look == NodeLookup(algorithm, f, tt)
        won == checkWinner(f.board)
    IN IF look.return THEN [returns |-> TRUE, score |-> look.score, via |-> "cache"]
       ELSE IF f.depth = 0 \/ isBoardFull(f.board)
       THEN [returns |-> TRUE, score |-> evaluateBoard(f.board, BOT), via |-> "static"]
       ELSE IF won = BOT
       THEN [returns |-> TRUE, score |-> WinScore + f.depth, via |-> "win"]
       ELSE IF won # 0
       THEN [returns |-> TRUE, score |-> -WinScore - f.depth, via |-> "loss"]
       ELSE [returns |-> FALSE,
             frame |-> [f EXCEPT !.alpha = look.alpha, !.beta = look.beta,
                                 !.entry.cached = NodeCached(algorithm, f, tt),
                                 !.betaOrig = BetaOrig(f, look),
                                 !.validMoves = getValidMoves(f.board), !.i = 1,
                                 !.best = IF f.mover = BOT THEN -Infinity ELSE Infinity,
                                 !.pc = "loop"]]

\* The entry of a search call, up to its loop: the table lookup, the terminal
\* checks, and the locals of the loop.  The call either returns a score at
\* once or goes on with its frame.
NodeEnter(algorithm, f, tt) ==
    LET look == NodeLookup(algorithm, f, tt)
        won == checkWinner(f.board)
    IN IF look.return THEN [returns |-> TRUE, score |-> look.score, via |-> "cache"]
       ELSE IF won = BOT
       THEN [returns |-> TRUE, score |-> WinScore + f.depth, via |-> "win"]
       ELSE IF won # 0
       THEN [returns |-> TRUE, score |-> -WinScore - f.depth, via |-> "loss"]
       ELSE IF f.depth = 0 \/ isBoardFull(f.board)
       THEN [returns |-> TRUE, score |-> evaluateBoard(f.board, BOT), via |-> "static"]
       ELSE [returns |-> FALSE,
             frame |-> [f EXCEPT !.alpha = look.alpha, !.beta = look.beta,
                                 !.entry.cached = NodeCached(algorithm, f, tt),
                                 !.betaOrig = BetaOrig(f, look),
                                 !.validMoves = getValidMoves(f.board), !.i = 1,
                                 !.best = IF f.mover = BOT THEN -Infinity ELSE Infinity,
                                 !.pc = "loop"]]

\* The call a frame makes for column validMoves[i]: the mover's piece is
\* dropped and the other player is to move, one level down, in the window as
\* it stands.
NodeChild(f) ==
    NodeFrame(makeMove(f.board, f.validMoves[f.i], f.mover), f.depth - 1, f.alpha, f.beta,
              IF f.mover = PLAYER THEN BOT ELSE PLAYER)

\* The rest of a loop iteration once the call for validMoves[i] returned
\* score: the best score, the window and the cutoff, written as each search
\* writes them.  The frame goes on with the next column or leaves its loop.
NodeResume(algorithm, f, score) ==
    LET best == IF f.mover = BOT THEN Max(f.best, score) ELSE Min(f.best, score)
        alpha == IF f.mover # BOT THEN f.alpha
                 ELSE IF algorithm = "mtdf" THEN Max(f.alpha, best)
                 ELSE Max(f.alpha, score)
        beta == IF f.mover = BOT THEN f.beta
                ELSE IF algorithm = "mtdf" THEN Min(f.beta, best)
                ELSE Min(f.beta, score)
        cutoff == IF algorithm = "mtdf" THEN alpha >= beta ELSE beta <= alpha
    IN [f EXCEPT !.best = best, !.alpha = alpha, !.beta = beta,
                 !.i = IF cutoff \/ f.i = Len(f.validMoves) THEN f.i ELSE f.i + 1,
                 !.pc = IF cutoff \/ f.i = Len(f.validMoves) THEN "store" ELSE "loop"]

\* The end of a search call after its loop: the table-using searches store
\* their score with its depth and flag; all return the score.
NodeLeave(algorithm, f, tt) ==
    IF algorithm = "alphabeta" THEN [score |-> f.best, flag |-> "none", tt |-> tt]
    ELSE [score |-> f.best, flag |-> StoreFlag(f.best, f.alphaOrig, f.betaOrig),
          tt |-> TableSet(tt, NodeKey(algorithm, f),
                          [score |-> f.best, depth |-> f.depth,
                           flag |-> StoreFlag(f.best, f.alphaOrig, f.betaOrig)])]

\* The locals of an mtdfAlgorithm call at its entry.
MtdfEntry(b, depth, firstGuess) ==
    [active |-> TRUE, board |-> b, depth |-> depth, g |-> firstGuess,
     lowerBound |-> -Infinity, upperBound |-> Infinity, beta |-> 0]

NoMtdf == [active |-> FALSE]

NoEvent == [kind |-> "none"]

Searching == probe.op = "search" /\ ~probe.done

Top == probe.stack[Len(probe.stack)]

Pop == SubSeq(probe.stack, 1, Len(probe.stack) - 1)

\* The boards the searches start from, the bot to move: those of the direct
\* calls, and the drawn game three moves before its end.
NodeBoards(depth) == StartBoards(depth) \cup {Draw(Len(DrawMoves) - 3)}

InitNodes ==
    /\ \E a \in Algorithms : \E d \in MinSearchDepth .. MaxNodeDepth : \E b \in NodeBoards(d) :
          /\ board = b
          /\ config = [algorithm |-> a, searchDepth |-> d, playerStarts |-> b # OpenThree]
    /\ currentPlayer = BOT
    /\ gameState = "playing"
    /\ winner = 0
    /\ metrics = ResetMetrics
    /\ transpositionTable = EmptyTable
    /\ pending = << >>
    /\ game = 1
    /\ clicks = 0
    /\ writer = << >>
    /\ probe = NoCall

\* findBestMove(board, config.algorithm, config.searchDepth) is called.
EnterFindBestMove ==
    /\ gameState = "playing"
    /\ currentPlayer = BOT
    /\ probe = NoCall
    /\ probe' = [op |-> "search", algorithm |-> config.algorithm, board |-> board,
                 depth |-> config.searchDepth, entryTable |-> transpositionTable,
                 validMoves |-> getValidMoves(board),
                 root |-> [i |-> 1, bestScore |-> -Infinity,
                           bestCol |-> FirstOrUndefined(getValidMoves(board))],
                 l |-> MtdfBranchEntry(board, config.searchDepth),
                 m |-> NoMtdf,
                 stack |-> << >>, ret |-> << >>, nodes |-> 0, invocations |-> 0,
                 done |-> FALSE, event |-> NoEvent]
    /\ UNCHANGED <<gameState, board, currentPlayer, winner, config, metrics,
                   transpositionTable, pending, game, clicks, writer>>

\* The root loop of the alphabeta and transposition branches calls the search
\* for column validMoves[i]: full window, depth - 1, the human to move.
RootCall ==
    /\ Searching /\ probe.algorithm # "mtdf"
    /\ probe.stack = << >> /\ probe.ret = << >>
    /\ probe.root.i <= Len(probe.validMoves)
    /\ probe' = [probe EXCEPT
                    !.stack = <<NodeFrame(makeMove(probe.board,
                                                   probe.validMoves[probe.root.i], BOT),
                                          probe.depth - 1, -Infinity, Infinity, PLAYER)>>,
                    !.invocations = probe.invocations + 1,
                    !.event = NoEvent]
    /\ UNCHANGED <<gameState, board, currentPlayer, winner, config, metrics,
                   transpositionTable, pending, game, clicks, writer>>

\* The search of a root column returned: "if (score > bestScore)".
RootResume ==
    /\ Searching /\ probe.algorithm # "mtdf"
    /\ probe.stack = << >> /\ probe.ret # << >>
    /\ LET score == probe.ret[1]
           better == score > probe.root.bestScore
       IN probe' = [probe EXCEPT
                       !.root = [i |-> probe.root.i + 1,
                                 bestScore |-> IF better THEN score
                                               ELSE probe.root.bestScore,
                                 bestCol |-> IF better
                                             THEN probe.validMoves[probe.root.i]
                                             ELSE probe.root.bestCol],
                       !.ret = << >>, !.event = NoEvent]
    /\ UNCHANGED <<gameState, board, currentPlayer, winner, config, metrics,
                   transpositionTable, pending, game, clicks, writer>>

\* The mtdf branch calls mtdfAlgorithm for column validMoves[i] at depth d - 1.
MtdfCall ==
    /\ Searching /\ probe.algorithm = "mtdf"
    /\ ~probe.m.active
    /\ probe.l.d <= probe.l.depth
    /\ probe' = [probe EXCEPT
                    !.m = MtdfEntry(makeMove(probe.board, probe.validMoves[probe.l.i], BOT),
                                    probe.l.d - 1, probe.l.firstGuess),
                    !.event = NoEvent]
    /\ UNCHANGED <<gameState, board, currentPlayer, winner, config, metrics,
                   transpositionTable, pending, game, clicks, writer>>

\* A pass of mtdfAlgorithm begins: beta = max(g, lowerBound + 1) and the
\* null-window search at beta is called.
PassCall ==
    /\ Searching /\ probe.algorithm = "mtdf"
    /\ probe.m.active
    /\ probe.stack = << >> /\ probe.ret = << >>
    /\ probe.m.lowerBound < probe.m.upperBound
    /\ LET beta == Max(probe.m.g, PlusOne(probe.m.lowerBound))
       IN probe' = [probe EXCEPT
                       !.m.beta = beta,
                       !.stack = <<NodeFrame(probe.m.board, probe.m.depth, beta - 1, beta,
                                             PLAYER)>>,
                       !.invocations = probe.invocations + 1,
                       !.event = NoEvent]
    /\ UNCHANGED <<gameState, board, currentPlayer, winner, config, metrics,
                   transpositionTable, pending, game, clicks, writer>>

\* The null-window search returned: the bounds of the pass are updated.
PassResume ==
    /\ Searching /\ probe.algorithm = "mtdf"
    /\ probe.m.active
    /\ probe.stack = << >> /\ probe.ret # << >>
    /\ LET u == MtdfUpdate(probe.m.beta, probe.m.lowerBound, probe.m.upperBound,
                           [score |-> probe.ret[1], nodes |-> probe.nodes,
                            tt |-> transpositionTable])
       IN probe' = [probe EXCEPT
                       !.m.g = u.g, !.m.lowerBound = u.lowerBound,
                       !.m.upperBound = u.upperBound,
                       !.ret = << >>, !.event = NoEvent]
    /\ UNCHANGED <<gameState, board, currentPlayer, winner, config, metrics,
                   transpositionTable, pending, game, clicks, writer>>

\* The loop of mtdfAlgorithm ends and the call returns g to the mtdf branch.
MtdfResume ==
    /\ Searching /\ probe.algorithm = "mtdf"
    /\ probe.m.active
    /\ probe.stack = << >> /\ probe.ret = << >>
    /\ ~(probe.m.lowerBound < probe.m.upperBound)
    /\ probe' = [probe EXCEPT
                    !.l = MtdfBranchStep(probe.l, probe.validMoves, [score |-> probe.m.g]),
                    !.m = NoMtdf, !.event = NoEvent]
    /\ UNCHANGED <<gameState, board, currentPlayer, winner, config, metrics,
                   transpositionTable, pending, game, clicks, writer>>

\* A search call is entered, and counted unless the table answers it.
EnterNodeHitsNotCounted ==
    /\ Searching
    /\ probe.stack # << >> /\ Top.pc = "enter"
    /\ \E e \in {NodeEnter(probe.algorithm, Top, transpositionTable)} :
          probe' = [probe EXCEPT
                       !.nodes = IF e.returns /\ e.via = "cache" THEN probe.nodes
                                ELSE probe.nodes + 1,
                       !.stack = IF e.returns THEN Pop
                                 ELSE Append(Pop, e.frame),
                       !.ret = IF e.returns THEN <<e.score>> ELSE << >>,
                       !.event = IF e.returns
                                 THEN [kind |-> "return", board |-> Top.board,
                                       depth |-> Top.depth, via |-> e.via,
                                       score |-> e.score]
                                 ELSE NoEvent]
    /\ UNCHANGED <<gameState, board, currentPlayer, winner, config, metrics,
                   transpositionTable, pending, game, clicks, writer>>

\* A search call is entered: the node is counted and the call returns at once
\* or enters its loop.
EnterNode ==
    /\ Searching
    /\ probe.stack # << >> /\ Top.pc = "enter"
    /\ \E e \in {NodeEnter(probe.algorithm, Top, transpositionTable)} :
          probe' = [probe EXCEPT
                       !.nodes = probe.nodes + 1,
                       !.stack = IF e.returns THEN Pop
                                 ELSE Append(Pop, e.frame),
                       !.ret = IF e.returns THEN <<e.score>> ELSE << >>,
                       !.event = IF e.returns
                                 THEN [kind |-> "return", board |-> Top.board,
                                       depth |-> Top.depth, via |-> e.via,
                                       score |-> e.score]
                                 ELSE NoEvent]
    /\ UNCHANGED <<gameState, board, currentPlayer, winner, config, metrics,
                   transpositionTable, pending, game, clicks, writer>>

\* A search call in its loop calls itself for column validMoves[i].
CallNode ==
    /\ Searching
    /\ probe.stack # << >> /\ Top.pc = "loop" /\ probe.ret = << >>
    /\ probe' = [probe EXCEPT !.stack = Append(probe.stack, NodeChild(Top)),
                              !.invocations = probe.invocations + 1,
                              !.event = NoEvent]
    /\ UNCHANGED <<gameState, board, currentPlayer, winner, config, metrics,
                   transpositionTable, pending, game, clicks, writer>>

\* The call for column validMoves[i] returned to the loop.
ResumeNode ==
    /\ Searching
    /\ probe.stack # << >> /\ Top.pc = "loop" /\ probe.ret # << >>
    /\ probe' = [probe EXCEPT
                    !.stack = Append(Pop, NodeResume(probe.algorithm, Top, probe.ret[1])),
                    !.ret = << >>, !.event = NoEvent]
    /\ UNCHANGED <<gameState, board, currentPlayer, winner, config, metrics,
                   transpositionTable, pending, game, clicks, writer>>

\* A search call has left its loop: it stores its entry and returns.
LeaveNode ==
    /\ Searching
    /\ probe.stack # << >> /\ Top.pc = "store"
    /\ \E e \in {NodeLeave(probe.algorithm, Top, transpositionTable)} :
          /\ probe' = [probe EXCEPT
                          !.stack = Pop,
                          !.ret = <<e.score>>,
                          !.event = [kind |-> "store", frame |-> Top,
                                     score |-> e.score, flag |-> e.flag]]
          /\ transpositionTable' = e.tt
          /\ writer' = Writers(transpositionTable, e.tt, writer, game)
    /\ UNCHANGED <<gameState, board, currentPlayer, winner, config, metrics,
                   pending, game, clicks>>

\* The loops of findBestMove end and it returns bestCol, bestScore and the
\* node count, which makeBotMove puts in the metrics.
ReturnFindBestMove ==
    /\ Searching
    /\ probe.stack = << >> /\ probe.ret = << >>
    /\ IF probe.algorithm = "mtdf"
       THEN ~probe.m.active /\ ~(probe.l.d <= probe.l.depth)
       ELSE ~(probe.root.i <= Len(probe.validMoves))
    /\ probe' = [probe EXCEPT
                    !.done = TRUE, !.event = NoEvent,
                    !.root.bestCol = IF probe.algorithm = "mtdf" THEN probe.l.bestCol
                                     ELSE probe.root.bestCol,
                    !.root.bestScore = IF probe.algorithm = "mtdf" THEN probe.l.bestScore
                                       ELSE probe.root.bestScore]
    /\ metrics' = [nodesSearched |-> probe.nodes,
                   evaluation |-> probe'.root.bestScore, isThinking |-> TRUE]
    /\ UNCHANGED <<gameState, board, currentPlayer, winner, config,
                   transpositionTable, pending, game, clicks, writer>>

\* The bot drops its piece into the column findBestMove returned.
DropBestCol ==
    /\ gameState = "playing"
    /\ currentPlayer = BOT
    /\ probe.op = "search" /\ probe.done /\ probe.board = board
    /\ \E newBoard \in {makeMove(board, probe.root.bestCol, BOT)} :
       \E w \in {checkWinner(newBoard)} :
          /\ board' = newBoard
          /\ IF w # 0
             THEN winner' = w /\ gameState' = "finished" /\ UNCHANGED currentPlayer
             ELSE IF isBoardFull(newBoard)
             THEN gameState' = "finished" /\ UNCHANGED <<winner, currentPlayer>>
             ELSE currentPlayer' = PLAYER /\ UNCHANGED <<gameState, winner>>
    /\ metrics' = [metrics EXCEPT !.isThinking = FALSE]
    /\ UNCHANGED <<config, transpositionTable, pending, game, clicks, writer, probe>>

NextNodes ==
    \/ EnterFindBestMove
    \/ RootCall
    \/ RootResume
    \/ MtdfCall
    \/ PassCall
    \/ PassResume
    \/ MtdfResume
    \/ EnterNode
    \/ CallNode
    \/ ResumeNode
    \/ LeaveNode
    \/ ReturnFindBestMove
    \/ DropBestCol
    \/ \E col \in Cols : currentPlayer = PLAYER /\ clicks < NodeDrops /\ Drop(col)

SpecNodes == InitNodes /\ [][NextNodes]_vars

\* A call followed node by node returns what the call as a whole returns,
\* and leaves the same table.
NodesAgreeWithCall ==
    (probe.op = "search" /\ probe.done) =>
        \A whole \in {findBestMove(probe.board, probe.algorithm, probe.depth,
                                   probe.entryTable)} :
            /\ whole.col = probe.root.bestCol
            /\ whole.evaluation = probe.root.bestScore
            /\ whole.nodes = probe.nodes
            /\ probe.board = board => whole.tt = transpositionTable

(***************************************************************************)
(* Properties of the searches node by node.                                *)
(***************************************************************************)
Stored == probe.op = "search" /\ probe.event.kind = "store" /\ probe.algorithm # "alphabeta"

\* The beta of a frame once its lookup is made: the beta received, lowered to
\* the score of a cached UPPERBOUND entry of sufficient depth.
NarrowedBeta(f) ==
    IF /\ f.entry.cached # << >>
       /\ f.entry.cached[1].depth >= f.depth
       /\ f.entry.cached[1].flag = "UPPERBOUND"
    THEN Min(f.entry.beta, f.entry.cached[1].score)
    ELSE f.entry.beta

\* The flag by the rule UPPERBOUND iff score <= lo, otherwise LOWERBOUND iff
\* score >= hi, otherwise EXACT.
FlagByWindow(score, lo, hi) ==
    IF score <= lo THEN "UPPERBOUND" ELSE IF score >= hi THEN "LOWERBOUND" ELSE "EXACT"

\* C19 as stated: in both table-using searches the flag stored for a node is
\* decided against the alpha and the beta received at function entry, before
\* any narrowing by a cached entry: UPPERBOUND iff score <= entry alpha,
\* otherwise LOWERBOUND iff score >= entry beta, otherwise EXACT.
C19_FlagAgainstEntryWindow ==
    Stored =>
        LET f == probe.event.frame
        IN /\ probe.event.flag = FlagByWindow(probe.event.score, f.entry.alpha, f.entry.beta)
           /\ transpositionTable[NodeKey(probe.algorithm, f)].flag =
                  FlagByWindow(probe.event.score, f.entry.alpha, f.entry.beta)

\* C19 amended: in both table-using searches the flag stored for a node is
\* decided against the alpha received at function entry and the beta as it
\* stands after the lookup (the entry beta, lowered to the score of a cached
\* UPPERBOUND entry of sufficient depth): UPPERBOUND iff score <= entry
\* alpha, otherwise LOWERBOUND iff score >= that beta, otherwise EXACT.
C19_FlagAgainstAlphaAtEntryBetaAfterLookup ==
    Stored =>
        LET f == probe.event.frame
        IN /\ probe.event.flag = FlagByWindow(probe.event.score, f.entry.alpha, NarrowedBeta(f))
           /\ transpositionTable[NodeKey(probe.algorithm, f)] =
                  [score |-> probe.event.score, depth |-> f.depth,
                   flag |-> FlagByWindow(probe.event.score, f.entry.alpha, NarrowedBeta(f))]

\* A node is stored whose beta was lowered by a cached entry, with a score
\* between that beta and the beta it received: its flag is LOWERBOUND.
C19_Witness ==
    /\ Stored
    /\ NarrowedBeta(probe.event.frame) < probe.event.frame.entry.beta
    /\ probe.event.score > probe.event.frame.entry.alpha
    /\ probe.event.score >= NarrowedBeta(probe.event.frame)
    /\ probe.event.score < probe.event.frame.entry.beta
    /\ probe.event.flag = "LOWERBOUND"

\* A node of the search with memory is stored after its window was narrowed
\* by a cached entry.
C19_WitnessMemory ==
    /\ Stored
    /\ probe.algorithm = "mtdf"
    /\ probe.event.frame.entry.cached # << >>
    /\ probe.event.frame.entry.cached[1].depth >= probe.event.frame.depth

NodeReturned == probe.op = "search" /\ probe.event.kind = "return"

\* C20: in all three search functions, whatever the depth left (0 included)
\* and whatever the table holds, a call on a board won by the bot returns
\* exactly 10000 + depth and a call on a board won by the human returns
\* exactly -10000 - depth; a call returns the static evaluation only on a
\* board without winner, at depth 0 or full; a call never returns from the
\* table on a won board, since no won board is ever stored.
C20_TerminalChecksFirst ==
    /\ NodeReturned =>
          \A w \in {checkWinner(probe.event.board)} :
             /\ w = BOT => probe.event.score = WinScore + probe.event.depth
             /\ w = PLAYER => probe.event.score = -WinScore - probe.event.depth
             /\ probe.event.via = "cache" => w = 0
             /\ probe.event.via = "static" =>
                   /\ w = 0
                   /\ probe.event.depth = 0 \/ isBoardFull(probe.event.board)
                   /\ probe.event.score = evaluateBoard(probe.event.board, BOT)
    /\ \A k \in DOMAIN transpositionTable : checkWinner(KeyBoard(k)) = 0

\* A call at depth 0 on a board the bot has won, with entries in the table.
C20_Witness ==
    /\ NodeReturned
    /\ probe.event.depth = 0
    /\ checkWinner(probe.event.board) = BOT
    /\ probe.event.score = WinScore
    /\ transpositionTable # EmptyTable

\* A call with depth left on a board the human has won.
C20_WitnessLoss ==
    /\ NodeReturned
    /\ probe.event.depth > 0
    /\ checkWinner(probe.event.board) = PLAYER
    /\ probe.event.score = -WinScore - probe.event.depth

\* A call with depth left on a full board without winner.
C20_WitnessFull ==
    /\ NodeReturned
    /\ probe.event.depth > 0
    /\ probe.event.via = "static"
    /\ isBoardFull(probe.event.board)

(***************************************************************************)
(* mtdfAlgorithm and alphaBetaPruningAlgorithm called on the same board,   *)
(* depth and mover, mtdfAlgorithm from an empty table.  The boards are     *)
(* those of the opening and of the drawn game from move GuessFrom on, the  *)
(* open three, and the boards a drop leads to.                             *)
(***************************************************************************)
MaxGuessDepth == 3   \* the two searches are called with depths 0 .. MaxGuessDepth
GuessFrom == 26      \* the boards of the two games after GuessFrom moves and more
GuessDrops == 1      \* pieces dropped on a board of the games

\* The value of a board for the mover at a depth: alphaBetaPruningAlgorithm
\* with the full window.
FullWindow(b, depth, mover) ==
    alphaBetaPruningAlgorithm(b, depth, -Infinity, Infinity, mover = BOT, BOT, 0).score

\* First guesses: those of the pass-by-pass calls, the scores next to them
\* on either side of every win score, and beyond every score.
GuessesAround(v) ==
    FirstGuesses \cup {v - 1, v, v + 1}
        \cup {WinScore + MaxGuessDepth + 1, -WinScore - MaxGuessDepth - 1}

InitGuess ==
    /\ \E n \in GuessFrom .. Len(DrawMoves) :
       \E b \in {Draw(n)} \cup {Opening(k) : k \in {n} \cap (0 .. Len(OpeningMoves))}
                \cup {OpenThree : k \in {n} \cap {GuessFrom}} :
          /\ board = b
          /\ currentPlayer = (IF b = OpenThree THEN BOT ELSE Mover(n))
          /\ gameState = (IF isBoardFull(b) THEN "finished" ELSE "playing")
    /\ winner = 0
    /\ config = [algorithm |-> "mtdf", searchDepth |-> DefaultSearchDepth,
                 playerStarts |-> TRUE]
    /\ metrics = ResetMetrics
    /\ transpositionTable = EmptyTable
    /\ pending = << >>
    /\ game = 1
    /\ clicks = 0
    /\ writer = << >>
    /\ probe = NoCall

\* mtdfAlgorithm(board, depth, firstGuess, currentPlayer, BOT) is called with
\* an empty table, and alphaBetaPruningAlgorithm on the same board, depth and
\* mover with the full window.
CallMtdfAndAlphaBeta(depth) ==
    /\ probe = NoCall
    /\ \E v \in {FullWindow(board, depth, currentPlayer)} :
       \E firstGuess \in GuessesAround(v) :
       \E r \in {mtdfAlgorithm(board, depth, firstGuess, currentPlayer, BOT, 0, EmptyTable)} :
          probe' = [op |-> "mtdfAndAlphaBeta", board |-> board, depth |-> depth,
                    mover |-> currentPlayer, firstGuess |-> firstGuess,
                    mtdf |-> r.score, alphabeta |-> v, nodes |-> r.nodes]
    /\ UNCHANGED <<gameState, board, currentPlayer, winner, config, metrics,
                   transpositionTable, pending, game, clicks, writer>>

NextGuess ==
    \/ \E depth \in 0 .. MaxGuessDepth : CallMtdfAndAlphaBeta(depth)
    \/ \E col \in Cols : clicks < GuessDrops /\ probe = NoCall /\ Drop(col)

SpecGuess == InitGuess /\ [][NextGuess]_vars

\* C21: from an empty table, on every board, at every depth, for every mover
\* and every first guess, mtdfAlgorithm returns the value
\* alphaBetaPruningAlgorithm returns with the window (-Infinity, Infinity);
\* its result is the same whatever the first guess.
C21_MtdfIsAlphaBetaValue ==
    probe.op = "mtdfAndAlphaBeta" => probe.mtdf = probe.alphabeta

\* C21's case: at the greatest depth, on a board without winner that is not
\* full, a call whose first guess lies strictly between two scores away from
\* the value, which is not 0, and which took several searches.
C21_Witness ==
    /\ probe.op = "mtdfAndAlphaBeta"
    /\ probe.depth = MaxGuessDepth
    /\ checkWinner(probe.board) = 0
    /\ Len(getValidMoves(probe.board)) > 1
    /\ probe.alphabeta # 0
    /\ probe.firstGuess > probe.alphabeta + 1
    /\ probe.nodes > 2 * COLS

\* A call whose first guess is below the value, the human to move.
C21_WitnessBelow ==
    /\ probe.op = "mtdfAndAlphaBeta"
    /\ probe.depth > 0
    /\ probe.mover = PLAYER
    /\ checkWinner(probe.board) = 0
    /\ probe.firstGuess < probe.alphabeta - 1
    /\ probe.alphabeta \notin {0, WinScore + probe.depth - 1, 1 - WinScore - probe.depth}

(***************************************************************************)
(* Direct calls of evaluateBoard, for either player, on the boards of the  *)
(* two games and the boards a drop leads to.                               *)
(***************************************************************************)
\* evaluateBoard(board, player) is called.
CallEvaluateBoard(player) ==
    /\ probe = NoCall
    /\ probe' = [op |-> "evaluateBoard", board |-> board, player |-> player,
                 result |-> evaluateBoard(board, player)]
    /\ UNCHANGED <<gameState, board, currentPlayer, winner, config, metrics,
                   transpositionTable, pending, game, clicks, writer>>

NextEvaluate ==
    \/ \E col \in Cols : probe = NoCall /\ Drop(col)
    \/ \E player \in {PLAYER, BOT} : CallEvaluateBoard(player)

SpecEvaluate == InitBoard /\ [][NextEvaluate]_vars

\* The windows of four cells in a direction: the sets of four cells of the
\* board in a line, a step of the direction apart.
WindowsIn(d) ==
    {{<<r + k * d[1], c + k * d[2]>> : k \in 0 .. 3} : r \in Rows, c \in Cols}
        \cap SUBSET (Rows \X Cols)

AllWindows == UNION {WindowsIn(d) : d \in Directions}

\* The windows of board b holding n cells of player p and 4 - n empty cells.
WindowsWith(b, p, n) ==
    {w \in AllWindows : /\ Cardinality({cell \in w : At(b, cell) = p}) = n
                        /\ Cardinality({cell \in w : At(b, cell) = 0}) = 4 - n}

\* C22: evaluateBoard(board, subject) is the sum over the windows of four
\* cells in the four directions (24 horizontal, 21 vertical, 12 and 12
\* diagonal) of +100 for four subject cells, +5 for three subject and one
\* empty, +2 for two subject and two empty, -4 for three opponent and one
\* empty, -1 for two opponent and two empty and 0 otherwise, plus 3 for each
\* subject piece in column 3.
C22_EvaluateBoardIsWindowSum ==
    /\ Cardinality(WindowsIn(<<0, 1>>)) = 24
    /\ Cardinality(WindowsIn(<<1, 0>>)) = 21
    /\ Cardinality(WindowsIn(<<1, 1>>)) = 12
    /\ Cardinality(WindowsIn(<<-1, 1>>)) = 12
    /\ Cardinality(AllWindows) = 69
    /\ probe.op = "evaluateBoard" =>
          LET b == probe.board
              subject == probe.player
              opponent == IF probe.player = PLAYER THEN BOT ELSE PLAYER
          IN probe.result =
                100 * Cardinality(WindowsWith(b, subject, 4))
                + 5 * Cardinality(WindowsWith(b, subject, 3))
                + 2 * Cardinality(WindowsWith(b, subject, 2))
                - 4 * Cardinality(WindowsWith(b, opponent, 3))
                - Cardinality(WindowsWith(b, opponent, 2))
                + 3 * Cardinality({r \in Rows : Cell(b, r, 3) = subject})

\* C22's case: a call on a board with windows of every scoring kind but the
\* four, with windows of three pieces closed by the other player, and with
\* subject pieces in column 3.
C22_Witness ==
    /\ probe.op = "evaluateBoard"
    /\ \A n \in {2, 3} : \A p \in {PLAYER, BOT} : WindowsWith(probe.board, p, n) # {}
    /\ \E w \in AllWindows :
          /\ Cardinality({cell \in w : At(probe.board, cell) = probe.player}) = 3
          /\ Cardinality({cell \in w : At(probe.board, cell) = 0}) = 0
    /\ \E r \in Rows : Cell(probe.board, r, 3) = probe.player
    /\ probe.result # 0

\* A call on a board with a window of four subject cells.
C22_WitnessFour ==
    /\ probe.op = "evaluateBoard"
    /\ WindowsWith(probe.board, probe.player, 4) # {}
    /\ probe.result >= 100

\* A count the counter of a call is started from to see what depends on it.
NodeBias == 1000

\* findBestMove with its counter started from nodes.
findBestMoveCountingFrom(b, algorithm, depth, nodes, tt) ==
    IF algorithm = "mtdf"
    THEN MtdfDepthLoop(b, depth, 1, 0, getValidMoves(b), -Infinity,
                       FirstOrUndefined(getValidMoves(b)), nodes, tt)
    ELSE RootLoop(b, algorithm = "transposition", depth, getValidMoves(b), 1,
                  -Infinity, FirstOrUndefined(getValidMoves(b)), nodes, tt)

\* The search call entered last has not been counted yet.
Uncounted == IF probe.stack # << >> /\ Top.pc = "enter" THEN 1 ELSE 0

\* C23: the counter of a findBestMove call is 0 when the call begins and is
\* raised once by every call of a search function entered, calls that return
\* from the table or at a terminal node included, under 'mtdf' over all depth
\* iterations, columns and passes; findBestMove returns it, and makeBotMove
\* shows it; the column, the evaluation and the table the call leaves are the
\* same when the counter is started from another number.
C23_NodesAreInvocations ==
    probe.op = "search" =>
        /\ probe.nodes = probe.invocations - Uncounted
        /\ probe.done =>
              /\ metrics.nodesSearched = probe.invocations
              /\ \A biased \in {findBestMoveCountingFrom(probe.board, probe.algorithm,
                                    probe.depth, NodeBias, probe.entryTable)} :
                    /\ biased.col = probe.root.bestCol
                    /\ biased.evaluation = probe.root.bestScore
                    /\ biased.nodes = NodeBias + probe.invocations
                    /\ probe.board = board => biased.tt = transpositionTable

\* C23's case: a call under 'mtdf' at the greatest depth, on the table an
\* earlier call of the game left, has returned.
C23_Witness ==
    /\ probe.op = "search"
    /\ probe.done
    /\ probe.algorithm = "mtdf"
    /\ probe.depth = MaxNodeDepth
    /\ probe.entryTable # EmptyTable
    /\ probe.invocations > COLS * MaxNodeDepth

\* A call of a search function that returned from the table is counted.
C23_WitnessCacheHit ==
    /\ probe.op = "search"
    /\ probe.event.kind = "return"
    /\ probe.event.via = "cache"
    /\ probe.nodes = probe.invocations
    /\ probe.invocations > 1

(***************************************************************************)
(* Further properties of the game session.                                 *)
(***************************************************************************)
\* The step is a drop of the human: handlePlayerMove passed its guard.
PlayerStep == clicks' = clicks + 1

\* The step is the end of a makeBotMove call: the oldest suspended call ran.
BotStep == pending # << >> /\ pending' = Tail(pending)

\* Board after is board before with one more piece, of player p, in the
\* lowest empty cell of a column whose top cell was empty.
LegalDrop(before, after, p) ==
    \E col \in Cols :
        /\ Cell(before, 0, col) = 0
        /\ after = [before EXCEPT ![LowestEmptyRow(before, col) + 1][col + 1] = p]

\* Every column a search loops over on a board it can visit is one whose top
\* cell is empty on that board.
SearchMovesLegal(b, depth) ==
    \A v \in Visited(b, BOT, depth) :
        \A i \in DOMAIN getValidMoves(v) : Cell(v, 0, getValidMoves(v)[i]) = 0

C25_BoardOfOneGame ==
    [][(BotStep /\ gameState # "setup") =>
          /\ Head(pending).game = game
          /\ LegalDrop(board, board', BOT)]_vars

(***************************************************************************)
(* Clicks on the board in any state.  The session goes on from a game in   *)
(* progress: the drawn game after ClickFrom moves or more, the human having *)
(* started, under 'alphabeta' (which leaves the table empty) at depth       *)
(* SessionDepth.  handlePlayerMove is called once, for any column, in any   *)
(* state the session reaches; the probe keeps the state the call saw.      *)
(***************************************************************************)
ClickFrom == 34      \* the session goes on from the drawn game after ClickFrom moves and more

InitClicks ==
    /\ \E n \in ClickFrom .. Len(DrawMoves) :
          /\ board = Draw(n)
          /\ currentPlayer = IF n = Len(DrawMoves) THEN Mover(n - 1) ELSE Mover(n)
          /\ gameState = IF n = Len(DrawMoves) THEN "finished" ELSE "playing"
    /\ winner = 0
    /\ config = [algorithm |-> "alphabeta", searchDepth |-> SessionDepth,
                 playerStarts |-> TRUE]
    /\ transpositionTable = EmptyTable
    /\ game = 1
    /\ clicks = 0
    /\ writer = << >>
    /\ LET e == BotTurnEffect(gameState, board, currentPlayer, config, ResetMetrics,
                              << >>, game)
       IN metrics = e.metrics /\ pending = e.pending
    /\ probe = NoCall

\* handlePlayerMove(col) is called, whatever the state: it returns early, or
\* drops the human's piece as in the session.
CallHandlePlayerMove(col) ==
    /\ probe = NoCall
    /\ probe' = [op |-> "handlePlayerMove", col |-> col, gameState |-> gameState,
                 board |-> board, currentPlayer |-> currentPlayer, winner |-> winner,
                 pending |-> pending]
    /\ IF ReturnsEarly(col)
       THEN UNCHANGED <<gameState, board, currentPlayer, winner, config, metrics,
                        transpositionTable, pending, game, clicks, writer>>
       ELSE /\ clicks' = clicks + 1
            /\ \E newBoard \in {makeMove(board, col, PLAYER)} :
               \E w \in {checkWinner(newBoard)} :
                  /\ board' = newBoard
                  /\ IF w # 0
                     THEN winner' = w /\ gameState' = "finished" /\ UNCHANGED currentPlayer
                     ELSE IF isBoardFull(newBoard)
                     THEN gameState' = "finished" /\ UNCHANGED <<winner, currentPlayer>>
                     ELSE currentPlayer' = BOT /\ UNCHANGED <<gameState, winner>>
            /\ LET e == BotTurnEffect(gameState', board', currentPlayer', config, metrics,
                                      pending, game)
               IN metrics' = e.metrics /\ pending' = e.pending
            /\ UNCHANGED <<config, transpositionTable, game, writer>>

NextClicks ==
    \/ probe = NoCall /\ Next
    \/ \E col \in Cols : CallHandlePlayerMove(col)

SpecClicks == InitClicks /\ [][NextClicks]_vars

\* The state the call saw lets the click through: the game is playing, it is
\* the human's turn and the top cell of the column is empty.
Acceptable == 
    /\ probe.gameState = "playing"
    /\ probe.currentPlayer = PLAYER
    /\ Cell(probe.board, 0, probe.col) = 0

\* C26: a click is accepted, and drops the human's piece in the column
\* clicked, only when the game is playing, it is the human's turn and the top
\* cell of the column is empty; in every other case handlePlayerMove leaves
\* the board, the current player, the winner and the game state as they were.
C26_ClickAcceptedOnlyOnHumanTurn ==
    probe.op = "handlePlayerMove" =>
        /\ ~Acceptable =>
              /\ board = probe.board
              /\ currentPlayer = probe.currentPlayer
              /\ winner = probe.winner
              /\ gameState = probe.gameState
        /\ Acceptable =>
              /\ board = [probe.board EXCEPT
                             ![LowestEmptyRow(probe.board, probe.col) + 1][probe.col + 1] =
                                 PLAYER]
              /\ currentPlayer = PLAYER \/ gameState = "playing"

\* C26's cases: on the human's turn in a playing game a click on a full
\* column is turned down.
C26_Witness ==
    /\ probe.op = "handlePlayerMove"
    /\ probe.gameState = "playing"
    /\ probe.currentPlayer = PLAYER
    /\ Cell(probe.board, 0, probe.col) # 0
    /\ \E col \in Cols : Cell(probe.board, 0, col) = 0

\* A click on an open column is turned down while a bot move is pending.
C26_WitnessBotTurn ==
    /\ probe.op = "handlePlayerMove"
    /\ probe.gameState = "playing"
    /\ probe.currentPlayer = BOT
    /\ probe.pending # << >>
    /\ Cell(probe.board, 0, probe.col) = 0

\* A click on an open column is turned down on the setup screen and in a
\* finished game.
C26_WitnessSetup ==
    /\ probe.op = "handlePlayerMove"
    /\ probe.gameState = "setup"
    /\ Cell(probe.board, 0, probe.col) = 0

C26_WitnessFinished ==
    /\ probe.op = "handlePlayerMove"
    /\ probe.gameState = "finished"
    /\ probe.currentPlayer = PLAYER
    /\ Cell(probe.board, 0, probe.col) = 0

\* A click is accepted.
C26_WitnessAccepted ==
    /\ probe.op = "handlePlayerMove"
    /\ Acceptable
    /\ currentPlayer = BOT
    /\ pending # << >>

\* The number of pieces of player p on board b.
PiecesOf(b, p) == Cardinality({cell \in Rows \X Cols : At(b, cell) = p})

\* The pieces of the two players on the board differ by at most one.
Alternated == PiecesOf(board, PLAYER) - PiecesOf(board, BOT) \in {-1, 0, 1}

\* C27: turns alternate and the game stops at its end: in every state the
\* numbers of human and bot pieces on the board differ by at most one, and
\* from a finished state no step but New Game changes the board or the
\* winner.
C27_AlternateAndStop ==
    /\ []Alternated
    /\ [][(gameState = "finished" /\ gameState' # "setup") =>
             (board' = board /\ winner' = winner)]_vars

====
